---------------------------- MODULE Spec2Model ----------------------------
(***************************************************************************)
(* State-machine model of the stream orchestrator of ai-live-stream:       *)
(* the Redis-backed audio queue, interrupt store, script queue and         *)
(* history log, the StreamProcessor tick (services/processor.py), and the  *)
(* HTTP handlers that register interrupts and drain audio.                 *)
(*                                                                         *)
(* Strings are sequences of one-character strings, so that strip, split,   *)
(* splitlines and lower are computed as Python computes them.              *)
(***************************************************************************)
EXTENDS Naturals, Integers, Sequences, FiniteSets, TLC

(***************************************************************************)
(* Bounds of the model.                                                    *)
(***************************************************************************)
\* Interrupts registered over one run.
MaxInterrupts == 2
\* Remote or store calls that raise over one run.
MaxFailures == 1
\* Calls of reset_state over one run.
MaxResets == 1
\* Length of the strings handed to _replace_script in ScriptSpec.
MaxLen == 4
\* Chunks enqueued over one run of AudioSpec.
MaxChunks == 3

\* process_once calls run_processor starts over one run of DriverSpec.
MaxTicks == 4
\* Failed attempts of TTS requests over one run of RetryLineSpec.
MaxRetries == 2
\* Characters of a transcription and of a requested text in WerSpec.
MaxText == 3
\* The largest count passed as n or as valid_sampling in SampleSpec.
MaxN == 3

(***************************************************************************)
(* Python string operations.                                               *)
(***************************************************************************)
\* Characters str.strip() removes (those that occur in the model's strings).
Whitespace == {" ", "\n"}

\* The value None of an Optional[str].
NoneStr == <<"None">>

\* Python truthiness of an Optional[str]: None and "" are falsy.
Truthy(s) == s # NoneStr /\ s # <<>>

\* The element of a one-element set.  The operators below bind their string
\* argument with x \in {s}, so that it is evaluated once however they nest.
The(S) == CHOOSE v \in S : TRUE

\* str.lstrip(): from the first character that is not whitespace.
LStrip(s) ==
    The({ IF \A i \in 1..Len(x) : x[i] \in Whitespace
          THEN <<>>
          ELSE SubSeq(x, CHOOSE i \in 1..Len(x) :
                             /\ x[i] \notin Whitespace
                             /\ \A j \in 1..(i - 1) : x[j] \in Whitespace,
                      Len(x)) : x \in {s} })

\* str.rstrip(): up to the last character that is not whitespace.
RStrip(s) ==
    The({ IF \A i \in 1..Len(x) : x[i] \in Whitespace
          THEN <<>>
          ELSE SubSeq(x, 1, CHOOSE i \in 1..Len(x) :
                                /\ x[i] \notin Whitespace
                                /\ \A j \in (i + 1)..Len(x) : x[j] \in Whitespace)
          : x \in {s} })

\* str.strip()
Strip(s) == RStrip(LStrip(s))

\* The parts of x between consecutive members of the position set at.
Parts(x, at) ==
    LET n == Cardinality(at)
        pos(j) == IF j = 0 THEN 0
                  ELSE IF j = n + 1 THEN Len(x) + 1
                  ELSE CHOOSE i \in at : Cardinality({p \in at : p < i}) = j - 1
    IN  [j \in 1..(n + 1) |-> SubSeq(x, pos(j - 1) + 1, pos(j) - 1)]

\* str.split(sep) for a one-character sep: the parts between consecutive
\* occurrences of sep, always at least one part.
Split(s, sep) ==
    The({ The({ Parts(x, at) : at \in {{i \in 1..Len(x) : x[i] = sep}} }) : x \in {s} })

\* str.splitlines(): no part for the empty string, none after a final newline.
SplitLines(s) ==
    The({ IF parts = << <<>> >>
          THEN <<>>
          ELSE IF parts[Len(parts)] = <<>>
               THEN SubSeq(parts, 1, Len(parts) - 1)
               ELSE parts : parts \in {Split(s, "\n")} })

LowerChar(c) ==
    CASE c = "S" -> "s"
      [] c = "P" -> "p"
      [] c = "T" -> "t"
      [] OTHER -> c

\* str.lower()
Lower(s) == The({ [i \in 1..Len(x) |-> LowerChar(x[i])] : x \in {s} })

\* str.replace(" ", "_")
ReplaceSpaces(s) ==
    The({ [i \in 1..Len(x) |-> IF x[i] = " " THEN "_" ELSE x[i]] : x \in {s} })

\* str(n) for n >= 0: the decimal digits.
RECURSIVE ToStr(_)
ToStr(n) == IF n < 10 THEN <<n>> ELSE ToStr(n \div 10) \o <<n % 10>>

\* int(s) of a digit string.
RECURSIVE ToInt(_)
ToInt(s) ==
    IF s = <<>> THEN 0 ELSE 10 * ToInt(SubSeq(s, 1, Len(s) - 1)) + s[Len(s)]


(***************************************************************************)
(* Configuration (config.py).  The built-in script is cut down to two      *)
(* speaker lines with the blank lines that separate them in the source.    *)
(***************************************************************************)
DEFAULT_STREAMER_PERSONA == <<"s">>

DEFAULT_SCRIPT ==
    <<"\n", "[", "S", "]", " ", "a", "\n", "\n", "[", "P", "]", " ", "b", "\n">>

\* Keys of PERSONA_REFERENCES (personas.json).
PERSONA_REFERENCES == {<<"s">>, <<"p">>}

\* (persona_key, line_index) pairs with a file assets/bests/<key>_<i>_best.wav.
BestFiles == {<<(<<"s">>), 1>>, <<(<<"p">>), 1>>}

\* AudioKind
GENERAL == "general"
SUPERCHAT == "superchat"
GIFT == "gift"
AudioKind == {GENERAL, SUPERCHAT, GIFT}

\* What the chat endpoint may answer to generate_script_with_llm: nothing,
\* blank lines only, two speaker lines, a line without a [Speaker] tag.
LLMOutputs ==
    { <<>>,
      <<" ", "\n">>,
      <<"[", "S", "]", " ", "c", "\n", "[", "P", "]", " ", "d">>,
      <<"c">> }

\* The bodies POSTed to /audio/interrupt.
Requests ==
    { [kind |-> SUPERCHAT, persona |-> <<"T">>, message |-> <<"y", "o">>],
      [kind |-> SUPERCHAT, persona |-> NoneStr, message |-> <<"y", "o">>],
      [kind |-> SUPERCHAT, persona |-> <<"T">>, message |-> <<>>],
      [kind |-> GIFT, persona |-> NoneStr, message |-> NoneStr],
      [kind |-> GENERAL, persona |-> NoneStr, message |-> NoneStr] }

(***************************************************************************)
(* State.                                                                  *)
(***************************************************************************)
VARIABLES
    audio_queue,       \* stream:audio:queue
    next_chunk_id,     \* stream:audio:next_chunk_id (0 when the key is absent)
    interrupts_queue,  \* stream:interrupts:queue
    interrupts_data,   \* stream:interrupts:data, interrupt_id -> record
    script_queue,      \* stream:script:queue
    history,           \* stream:history
    line_index,        \* StreamProcessor.line_index
    tick,              \* the worker's position in process_once and its locals
    drain,             \* per HTTP caller: position in fetch_audio_chunks, chunks
    registered,        \* interrupt ids handed out so far (uuid4 stands for a fresh id)
    failures,          \* calls that have raised so far
    resets,            \* reset_state calls so far
    ret,               \* what the last process_once call returned
    produced,          \* history variable: chunks enqueued per interrupt id
    marks,             \* history variable: mark_interrupt_processed calls per id
    popped,            \* history variable: ids pop_next_interrupt has returned
    resetAt,           \* history variable: value of registered at the last reset_state
    issuedMax,         \* history variable: highest chunk id assigned since the start
    epochMax,          \* history variable: highest chunk id assigned since the last reset_state
    plan,              \* history variable: arguments of the last _replace_script
    yielded,           \* history variable: entries popped from the script queue since then
    unrecorded,        \* history variable: chunk ids enqueued whose history append has not run
    answer,            \* history variable: what generate_script_with_llm returned last
    recorded,          \* history variable: history records appended per interrupt id
    failed_in,         \* history variable: per interrupt id, the stages in which a call raised
    pending,           \* history variable: per caller, the audio queue when its last drain began
    overlapped,        \* history variable: per caller, a chunk was enqueued since that drain began
    fetched,           \* history variable: per caller, what its last fetch_audio_chunks returned
    counted,           \* history variable: the last count_audio_chunks call and its result
    delivered,         \* history variable: per caller, the chunk ids its finished drains returned
    worker_task,       \* run_processor (app.py): where the coroutine waits, cancellation requested
    stop_event,        \* lifespan's stop_event
    in_flight,         \* process_once calls running in a thread started by run_processor
    outcomes,          \* history variable: how each finished process_once call ended
    tts_attempts,      \* history variable: attempts of TTS requests that have raised and were retried
    retry,             \* one call of generate_audio_with_reference: tenacity's position and attempt number
    sample,            \* one call of agenerate_audio_with_persona: arguments, candidates, scores, result
    score              \* one call of aget_valid_score: transcription, requested text, result

vars ==
    << audio_queue, next_chunk_id, interrupts_queue, interrupts_data,
       script_queue, history, line_index, tick, drain, registered, failures,
       resets, ret, produced, marks, popped, resetAt, issuedMax, epochMax,
       plan, yielded, unrecorded, answer, recorded, failed_in, pending,
       overlapped, fetched, counted, delivered, worker_task, stop_event, in_flight,
       outcomes, tts_attempts, retry, sample, score >>

Drainers == {"d1"}

InterruptIds == 1..MaxInterrupts

\* The InterruptRecord local of process_once when no interrupt is in hand.
NoInterrupt ==
    [interrupt_id |-> 0, kind |-> "none", persona |-> NoneStr,
     message |-> NoneStr, created_at |-> 0, status |-> "none"]

IdleTick ==
    [pc |-> "idle", interrupt |-> NoInterrupt, line |-> <<>>, persona |-> <<>>,
     kind |-> "none", chunk_id |-> <<>>]

(***************************************************************************)
(* services/audio.py                                                       *)
(***************************************************************************)
\* Mutant: the chunk is pushed at the head of the list (LPUSH).
enqueue_audio_chunk_lpush(queue, counter, kind, audio_base64, transcript, speaker) ==
    [queue |-> <<[chunk_id |-> ToStr(counter + 1), audio_base64 |-> audio_base64,
                  kind |-> kind, transcript |-> transcript,
                  speaker |-> speaker]>> \o queue,
     counter |-> counter + 1,
     chunk_id |-> ToStr(counter + 1)]

\* Mutant: the caller is handed the counter value read before the increment.
enqueue_audio_chunk_stale_id(queue, counter, kind, audio_base64, transcript, speaker) ==
    [queue |-> Append(queue,
                      [chunk_id |-> ToStr(counter + 1), audio_base64 |-> audio_base64,
                       kind |-> kind, transcript |-> transcript,
                       speaker |-> speaker]),
     counter |-> counter + 1,
     chunk_id |-> ToStr(counter)]

\* Mutant: the counter is read but the incremented value is not stored.
enqueue_audio_chunk_no_incr(queue, counter, kind, audio_base64, transcript, speaker) ==
    LET chunk_id == ToStr(counter + 1)
    IN  [queue |-> Append(queue,
                          [chunk_id |-> chunk_id, audio_base64 |-> audio_base64,
                           kind |-> kind, transcript |-> transcript,
                           speaker |-> speaker]),
         counter |-> counter,
         chunk_id |-> chunk_id]

\* enqueue_audio_chunk: INCR the counter, RPUSH the chunk.
enqueue_audio_chunk(queue, counter, kind, audio_base64, transcript, speaker) ==
    LET chunk_id == ToStr(counter + 1)
    IN  [queue |-> Append(queue,
                          [chunk_id |-> chunk_id, audio_base64 |-> audio_base64,
                           kind |-> kind, transcript |-> transcript,
                           speaker |-> speaker]),
         counter |-> counter + 1,
         chunk_id |-> chunk_id]

\* count_audio_chunks: LLEN.
count_audio_chunks == Len(audio_queue)

\* Mutant: only the counter key is deleted.
reset_audio_queue_counter_only == [queue |-> audio_queue, counter |-> 0]

\* reset_audio_queue: DEL of the queue key and of the counter key.
reset_audio_queue == [queue |-> <<>>, counter |-> 0]

(***************************************************************************)
(* services/interrupts.py                                                  *)
(***************************************************************************)
\* Mutant: only the kind is validated.
validate_superchat_kind_only(req) == req.kind # GENERAL

\* InterruptRequest.validate_superchat (schemas/audio.py): TRUE when accepted.
validate_superchat(req) ==
    /\ req.kind # GENERAL
    /\ req.kind = SUPERCHAT => Truthy(req.message) /\ Truthy(req.persona)

\* Mutant: the id is pushed at the head of the list (LPUSH).
register_interrupt_lpush(queue, data, interrupt_id, kind, persona, message) ==
    [data |-> (interrupt_id :>
                  [interrupt_id |-> interrupt_id, kind |-> kind,
                   persona |-> persona, message |-> message,
                   status |-> "queued", created_at |-> interrupt_id,
                   started_at |-> FALSE, completed_at |-> FALSE,
                   retry_at |-> FALSE]) @@ data,
     queue |-> <<interrupt_id>> \o queue]

\* register_interrupt: HSET the record, RPUSH the id.
register_interrupt(queue, data, interrupt_id, kind, persona, message) ==
    [data |-> (interrupt_id :>
                  [interrupt_id |-> interrupt_id, kind |-> kind,
                   persona |-> persona, message |-> message,
                   status |-> "queued", created_at |-> interrupt_id,
                   started_at |-> FALSE, completed_at |-> FALSE,
                   retry_at |-> FALSE]) @@ data,
     queue |-> Append(queue, interrupt_id)]

\* Mutant: an id without a record is left at the head of the list.
pop_next_interrupt_keep_orphan(queue, data) ==
    IF queue = <<>>
    THEN [queue |-> queue, data |-> data, record |-> NoInterrupt]
    ELSE LET interrupt_id == Head(queue)
         IN  IF interrupt_id \notin DOMAIN data
             THEN [queue |-> queue, data |-> data, record |-> NoInterrupt]
             ELSE [queue |-> Tail(queue),
                   data |-> [data EXCEPT ![interrupt_id].status = "processing",
                                         ![interrupt_id].started_at = TRUE],
                   record |-> [interrupt_id |-> interrupt_id,
                               kind |-> data[interrupt_id].kind,
                               persona |-> data[interrupt_id].persona,
                               message |-> data[interrupt_id].message,
                               created_at |-> data[interrupt_id].created_at,
                               status |-> "processing"]]

\* Mutant: the id is popped but no record is returned to process_once.
pop_next_interrupt_none(queue, data) ==
    [queue |-> IF queue = <<>> THEN queue ELSE Tail(queue),
     data |-> data, record |-> NoInterrupt]

\* Mutant: the id is read but left at the head of the list (LINDEX for LPOP).
pop_next_interrupt_peek(queue, data) ==
    IF queue = <<>>
    THEN [queue |-> queue, data |-> data, record |-> NoInterrupt]
    ELSE LET interrupt_id == Head(queue)
         IN  IF interrupt_id \notin DOMAIN data
             THEN [queue |-> Tail(queue), data |-> data, record |-> NoInterrupt]
             ELSE [queue |-> queue,
                   data |-> [data EXCEPT ![interrupt_id].status = "processing",
                                         ![interrupt_id].started_at = TRUE],
                   record |-> [interrupt_id |-> interrupt_id,
                               kind |-> data[interrupt_id].kind,
                               persona |-> data[interrupt_id].persona,
                               message |-> data[interrupt_id].message,
                               created_at |-> data[interrupt_id].created_at,
                               status |-> "processing"]]

\* pop_next_interrupt: LPOP the id, HGET the record, HSET it as processing.
pop_next_interrupt(queue, data) ==
    IF queue = <<>>
    THEN [queue |-> queue, data |-> data, record |-> NoInterrupt]
    ELSE LET interrupt_id == Head(queue)
         IN  IF interrupt_id \notin DOMAIN data
             THEN [queue |-> Tail(queue), data |-> data, record |-> NoInterrupt]
             ELSE [queue |-> Tail(queue),
                   data |-> [data EXCEPT ![interrupt_id].status = "processing",
                                         ![interrupt_id].started_at = TRUE],
                   record |-> [interrupt_id |-> interrupt_id,
                               kind |-> data[interrupt_id].kind,
                               persona |-> data[interrupt_id].persona,
                               message |-> data[interrupt_id].message,
                               created_at |-> data[interrupt_id].created_at,
                               status |-> "processing"]]

\* Mutant: the status argument is ignored and the default "processed" written.
mark_interrupt_processed_default(data, interrupt_id, status) ==
    IF interrupt_id \notin DOMAIN data
    THEN data
    ELSE [data EXCEPT ![interrupt_id].status = "processed",
                      ![interrupt_id].completed_at = TRUE]

\* Mutant: the record is read but the update is never written back.
mark_interrupt_processed_lost(data, interrupt_id, status) == data

\* mark_interrupt_processed: HGET, set status and completed_at, HSET.
mark_interrupt_processed(data, interrupt_id, status) ==
    IF interrupt_id \notin DOMAIN data
    THEN data
    ELSE [data EXCEPT ![interrupt_id].status = status,
                      ![interrupt_id].completed_at = TRUE]

\* Mutant: the record is rewritten but the id is not pushed back.
requeue_interrupt_no_push(queue, data, record) ==
    [data |-> (record.interrupt_id :>
                  [interrupt_id |-> record.interrupt_id, kind |-> record.kind,
                   persona |-> record.persona, message |-> record.message,
                   status |-> record.status, created_at |-> record.created_at,
                   started_at |-> FALSE, completed_at |-> FALSE,
                   retry_at |-> TRUE]) @@ data,
     queue |-> queue]

\* Mutant: the id is pushed back twice.
requeue_interrupt_twice(queue, data, record) ==
    [data |-> (record.interrupt_id :>
                  [interrupt_id |-> record.interrupt_id, kind |-> record.kind,
                   persona |-> record.persona, message |-> record.message,
                   status |-> record.status, created_at |-> record.created_at,
                   started_at |-> FALSE, completed_at |-> FALSE,
                   retry_at |-> TRUE]) @@ data,
     queue |-> queue \o <<record.interrupt_id, record.interrupt_id>>]

\* Mutant: the id is pushed back at the head of the list (LPUSH).
requeue_interrupt_head(queue, data, record) ==
    [data |-> (record.interrupt_id :>
                  [interrupt_id |-> record.interrupt_id, kind |-> record.kind,
                   persona |-> record.persona, message |-> record.message,
                   status |-> record.status, created_at |-> record.created_at,
                   started_at |-> FALSE, completed_at |-> FALSE,
                   retry_at |-> TRUE]) @@ data,
     queue |-> <<record.interrupt_id>> \o queue]

\* requeue_interrupt: HSET a payload rebuilt from the in-memory record, RPUSH.
requeue_interrupt(queue, data, record) ==
    [data |-> (record.interrupt_id :>
                  [interrupt_id |-> record.interrupt_id, kind |-> record.kind,
                   persona |-> record.persona, message |-> record.message,
                   status |-> record.status, created_at |-> record.created_at,
                   started_at |-> FALSE, completed_at |-> FALSE,
                   retry_at |-> TRUE]) @@ data,
     queue |-> Append(queue, record.interrupt_id)]

\* reset_interrupt_state: clears the id list and the record map.
reset_interrupt_state == [queue |-> <<>>, data |-> <<>>]

(***************************************************************************)
(* services/processor.py                                                   *)
(***************************************************************************)
\* Mutant: the lines are stripped but the blank ones are kept.
ScriptLines_keep_blank(script) ==
    The({ [i \in 1..Len(raw) |-> Strip(raw[i])] : raw \in {SplitLines(script)} })

\* [line.strip() for line in script.splitlines() if line.strip()]
ScriptLines(script) ==
    The({ SelectSeq([i \in 1..Len(raw) |-> Strip(raw[i])], LAMBDA l : l # <<>>)
          : raw \in {SplitLines(script)} })

\* Mutant: the line index is not rewound by the replacement.
replace_script_no_rewind(script, default_kind) ==
    The({ [queue |-> [i \in 1..Len(lines) |->
                         [line |-> lines[i], kind |-> default_kind,
                          persona |-> DEFAULT_STREAMER_PERSONA]],
           line_index |-> line_index] : lines \in {ScriptLines(script)} })

\* _replace_script: line_index = 0, DEL the queue, RPUSH one entry per line.
replace_script(script, default_kind) ==
    The({ [queue |-> [i \in 1..Len(lines) |->
                         [line |-> lines[i], kind |-> default_kind,
                          persona |-> DEFAULT_STREAMER_PERSONA]],
           line_index |-> 0] : lines \in {ScriptLines(script)} })

\* Mutant: the record names the default streamer instead of the speaker.
HistoryRecord_default_persona(persona, text, kind, chunk_id) ==
    [persona |-> DEFAULT_STREAMER_PERSONA, text |-> text, kind |-> kind,
     chunk_id |-> chunk_id]

\* HistoryRecord as _append_history stores it (the timestamp is left out).
HistoryRecord(persona, text, kind, chunk_id) ==
    [persona |-> persona, text |-> text, kind |-> kind, chunk_id |-> chunk_id]

\* _handle_script_line, the parse of the popped entry: an IndexError when the
\* line has no "[" or no "]".
parse_line(entry) ==
    The({ IF Len(byOpen) < 2 \/ Len(byClose) < 2
          THEN [raises |-> TRUE, speaker |-> <<>>, line |-> <<>>]
          ELSE [raises |-> FALSE,
                speaker |-> Lower(Strip(Split(byOpen[2], "]")[1])),
                line |-> Strip(byClose[2])]
          : byOpen \in {Split(Strip(entry.line), "[")},
            byClose \in {Split(Strip(entry.line), "]")} })

\* agenerate_audio_with_persona up to the remote request: the persona key, the
\* cached best file when line_index is given.  has_index = FALSE is line_index=None.
generate_audio(persona, script, has_index, index) ==
    IF persona = NoneStr
    THEN [raises |-> TRUE, cached |-> FALSE,
          audio |-> [src |-> "none", voice |-> <<>>, text |-> <<>>, index |-> 0]]
    ELSE LET key == ReplaceSpaces(Lower(persona))
             persona_key == IF key \in PERSONA_REFERENCES
                            THEN key
                            ELSE DEFAULT_STREAMER_PERSONA
         IN  IF has_index /\ <<persona_key, index>> \in BestFiles
             THEN [raises |-> FALSE, cached |-> TRUE,
                   audio |-> [src |-> "best", voice |-> persona_key,
                              text |-> <<>>, index |-> index]]
             ELSE [raises |-> FALSE, cached |-> FALSE,
                   audio |-> [src |-> "tts", voice |-> persona_key,
                              text |-> script, index |-> 0]]

\* Characters that re.sub(r"[^\w\s]", "", s) removes (those that occur in the
\* model's strings).
Punctuation == {"!", "[", "]"}

\* re.sub(r"\s+", " ", s): each run of whitespace becomes one space.
CollapseSpaces(s) ==
    The({ LET keep == { i \in 1..Len(x) :
                            x[i] \in Whitespace => (i = 1 \/ x[i - 1] \notin Whitespace) }
              at(j) == CHOOSE i \in keep : Cardinality({p \in keep : p < i}) = j - 1
          IN  [j \in 1..Cardinality(keep) |->
                  IF x[at(j)] \in Whitespace THEN " " ELSE x[at(j)]]
          : x \in {s} })

\* norm of calculate_wer: lower, drop punctuation, collapse whitespace, strip.
norm(s) ==
    Strip(CollapseSpaces(SelectSeq(Lower(s), LAMBDA c : c \notin Punctuation)))

\* str.split() without argument: the maximal runs of characters that are not
\* whitespace.
SplitWords(s) ==
    The({ SelectSeq(Parts(x, {i \in 1..Len(x) : x[i] \in Whitespace}),
                    LAMBDA w : w # <<>>) : x \in {s} })

\* min(ins, dele, sub, key=lambda x: x[0]): the first of the three with the
\* least cost.
MinByCost(ins, dele, sub) ==
    IF ins.cost <= dele.cost /\ ins.cost <= sub.cost THEN ins
    ELSE IF dele.cost <= sub.cost THEN dele
    ELSE sub

\* calculate_wer(ref, hyp): the table dp of (cost, S, D, I), WER = cost / max(1, m)
\* kept as the fraction num/den.
calculate_wer(ref, hyp) ==
    LET r == SplitWords(norm(ref))
        h == SplitWords(norm(hyp))
        m == Len(r)
        n == Len(h)
        dp[i \in 0..m, j \in 0..n] ==
            IF i = 0 THEN [cost |-> j, S |-> 0, D |-> 0, I |-> j]
            ELSE IF j = 0 THEN [cost |-> i, S |-> 0, D |-> i, I |-> 0]
            ELSE IF r[i] = h[j] THEN dp[i - 1, j - 1]
            ELSE LET ins == dp[i, j - 1]
                     dele == dp[i - 1, j]
                     sub == dp[i - 1, j - 1]
                 IN  MinByCost([ins EXCEPT !.cost = @ + 1, !.I = @ + 1],
                               [dele EXCEPT !.cost = @ + 1, !.D = @ + 1],
                               [sub EXCEPT !.cost = @ + 1, !.S = @ + 1])
    IN  [WER |-> [num |-> dp[m, n].cost, den |-> IF m > 1 THEN m ELSE 1],
         S |-> dp[m, n].S, D |-> dp[m, n].D, I |-> dp[m, n].I, N |-> m]

\* Mutant: the error rate itself is returned.
aget_valid_score_wer(transcription, reference_transcript) ==
    LET wer_score == calculate_wer(transcription, reference_transcript).WER
    IN  [num |-> wer_score.num, den |-> wer_score.den]

\* aget_valid_score once the speech-to-text endpoint has returned
\* transcription: 1 - calculate_wer(transcription, reference_transcript)["WER"],
\* as a fraction.
aget_valid_score(transcription, reference_transcript) ==
    LET wer_score == calculate_wer(transcription, reference_transcript).WER
    IN  [num |-> wer_score.den - wer_score.num, den |-> wer_score.den]

\* lifespan up to its yield: the worker task is created and has not run yet.
DriverIdle ==
    /\ worker_task = [pc |-> "created", must_cancel |-> FALSE]
    /\ stop_event = FALSE
    /\ in_flight = 0
    /\ outcomes = <<>>

\* No call of generate_audio_with_reference has been made yet.
RetryIdle == retry = [pc |-> "idle", attempt_number |-> 0]

\* No call of agenerate_audio_with_persona with n or valid_sampling has been
\* made yet.
\* An Optional[int] argument: None, or a count.
NoneInt == [given |-> FALSE, count |-> 0]

SampleIdle ==
    sample = [pc |-> "idle", n |-> NoneInt, valid_sampling |-> NoneInt,
              issued |-> 0, returned |-> {}, audio_b64s |-> <<>>,
              scores |-> <<>>, audio_b64 |-> 0,
              persona |-> DEFAULT_STREAMER_PERSONA, line_index |-> NoneInt,
              cached |-> FALSE]

\* No call of aget_valid_score has been made yet.
ScoreIdle ==
    score = [pc |-> "idle", transcription |-> <<>>, reference_transcript |-> <<>>,
             result |-> [num |-> 0, den |-> 1]]

\* The variables of the parts that are studied on their own, at rest.
AsideIdle == DriverIdle /\ tts_attempts = 0 /\ RetryIdle /\ SampleIdle /\ ScoreIdle

(***************************************************************************)
(* Initial state: empty stores, the processor constructed (line_index 0),  *)
(* no reset_state yet.                                                     *)
(***************************************************************************)
StoreIdle ==
    /\ audio_queue = <<>>
    /\ next_chunk_id = 0
    /\ interrupts_queue = <<>>
    /\ interrupts_data = <<>>
    /\ script_queue = <<>>
    /\ history = <<>>
    /\ line_index = 0
    /\ tick = IdleTick
    /\ drain = [d \in Drainers |-> [pc |-> "idle", chunks |-> <<>>]]
    /\ registered = 0
    /\ failures = 0
    /\ resets = 0
    /\ ret = "none"
    /\ produced = [i \in InterruptIds |-> 0]
    /\ marks = [i \in InterruptIds |-> 0]
    /\ popped = {}
    /\ resetAt = 0
    /\ issuedMax = 0
    /\ epochMax = 0
    /\ plan = [script |-> <<>>, kind |-> GENERAL]
    /\ yielded = <<>>
    /\ unrecorded = {}
    /\ answer = <<>>
    /\ recorded = [i \in InterruptIds |-> 0]
    /\ failed_in = [i \in InterruptIds |-> {}]
    /\ pending = [d \in Drainers |-> <<>>]
    /\ overlapped = [d \in Drainers |-> FALSE]
    /\ fetched = [d \in Drainers |-> <<>>]
    /\ counted = [flip |-> FALSE, result |-> 0]
    /\ delivered = [d \in Drainers |-> <<>>]

Init == StoreIdle /\ AsideIdle

AudioVars == << audio_queue, next_chunk_id, issuedMax, epochMax, unrecorded >>
InterruptVars == << interrupts_queue, interrupts_data >>
ScriptVars == << script_queue, line_index, plan, yielded >>
EnvVars == << registered, failures, resets >>
GhostVars == << produced, marks, popped, resetAt, answer, recorded, failed_in >>
DrainVars == << pending, overlapped, fetched, counted, delivered >>
DriverVars == << worker_task, stop_event, in_flight, outcomes >>
FnVars == << retry, sample, score >>
AsideVars == << DriverVars, tts_attempts, FnVars >>

(***************************************************************************)
(* HTTP handlers.                                                          *)
(***************************************************************************)
\* POST /audio/interrupt (routers/audio.py trigger_interrupt): the request is
\* validated by InterruptRequest, then registered under a fresh id.
trigger_interrupt(request) ==
    /\ registered < MaxInterrupts
    /\ validate_superchat(request)
    /\ request.kind # GENERAL
    /\ LET r == register_interrupt(interrupts_queue, interrupts_data,
                                   registered + 1, request.kind,
                                   request.persona, request.message)
       IN  /\ interrupts_data' = r.data
           /\ interrupts_queue' = r.queue
    /\ registered' = registered + 1
    /\ UNCHANGED << AudioVars, ScriptVars, history, tick, drain, failures,
                    resets, ret, GhostVars >>
    /\ UNCHANGED DrainVars
    /\ UNCHANGED AsideVars

\* Mutant: the chunks are popped from the tail of the queue (RPOP).
fetch_audio_chunks_rpop(d) ==
    /\ LET chunks == IF drain[d].pc = "idle" THEN <<>> ELSE drain[d].chunks
       IN  IF audio_queue = <<>>
           THEN /\ drain' = [drain EXCEPT ![d] = [pc |-> "idle", chunks |-> <<>>]]
                /\ UNCHANGED audio_queue
           ELSE /\ drain' = [drain EXCEPT ![d] =
                                [pc |-> "loop",
                                 chunks |-> Append(chunks,
                                                   audio_queue[Len(audio_queue)])]]
                /\ audio_queue' = SubSeq(audio_queue, 1, Len(audio_queue) - 1)
    /\ UNCHANGED << next_chunk_id, issuedMax, epochMax, unrecorded, InterruptVars,
                    ScriptVars, history, tick, EnvVars, ret, GhostVars >>

\* Mutant: the call reads the whole list (LRANGE) and deletes it in a second
\* step (DEL).
fetch_audio_chunks_lrange(d) ==
    /\ IF drain[d].pc = "idle"
       THEN /\ drain' = [drain EXCEPT ![d] = [pc |-> "loop", chunks |-> audio_queue]]
            /\ UNCHANGED audio_queue
       ELSE /\ drain' = [drain EXCEPT ![d] = [pc |-> "idle", chunks |-> <<>>]]
            /\ audio_queue' = <<>>
    /\ UNCHANGED << next_chunk_id, issuedMax, epochMax, unrecorded, InterruptVars, ScriptVars, history,
                    tick, EnvVars, ret, GhostVars >>

\* GET /audio (fetch_audio_chunks): one LPOP per step; the call returns its
\* chunks when LPOP finds the queue empty.
fetch_audio_chunks(d) ==
    /\ LET chunks == IF drain[d].pc = "idle" THEN <<>> ELSE drain[d].chunks
       IN  IF audio_queue = <<>>
           THEN /\ drain' = [drain EXCEPT ![d] = [pc |-> "idle", chunks |-> <<>>]]
                /\ UNCHANGED audio_queue
           ELSE /\ drain' = [drain EXCEPT ![d] =
                                [pc |-> "loop",
                                 chunks |-> Append(chunks, Head(audio_queue))]]
                /\ audio_queue' = Tail(audio_queue)
    /\ UNCHANGED << next_chunk_id, issuedMax, epochMax, unrecorded, InterruptVars, ScriptVars, history,
                    tick, EnvVars, ret, GhostVars >>

(***************************************************************************)
(* StreamProcessor.                                                        *)
(***************************************************************************)
\* reset_state, called between ticks and while no drain is in progress.
reset_state ==
    /\ resets < MaxResets
    /\ tick.pc = "idle"
    /\ \A d \in Drainers : drain[d].pc = "idle"
    /\ audio_queue' = reset_audio_queue.queue
    /\ next_chunk_id' = reset_audio_queue.counter
    /\ interrupts_queue' = reset_interrupt_state.queue
    /\ interrupts_data' = reset_interrupt_state.data
    /\ history' = <<>>
    /\ LET r == replace_script(DEFAULT_SCRIPT, GENERAL)
       IN  /\ script_queue' = r.queue
           /\ line_index' = r.line_index
    /\ plan' = [script |-> DEFAULT_SCRIPT, kind |-> GENERAL]
    /\ yielded' = <<>>
    /\ unrecorded' = {}
    /\ epochMax' = 0
    /\ resetAt' = registered
    /\ resets' = resets + 1
    /\ UNCHANGED << tick, drain, registered, failures, ret, issuedMax, produced,
                    marks, popped, answer, recorded, failed_in >>
    /\ UNCHANGED DrainVars
    /\ UNCHANGED AsideVars

\* The except branch of process_once: requeue the interrupt, return None.
RequeueAndReturn ==
    /\ LET r == requeue_interrupt(interrupts_queue, interrupts_data, tick.interrupt)
       IN  /\ interrupts_data' = r.data
           /\ interrupts_queue' = r.queue
    /\ tick' = IdleTick
    /\ ret' = "none"

\* Mutant: a pending interrupt is also taken while a line is being synthesized.
process_interrupt_preempt ==
    /\ tick.pc \in {"idle", "line_tts"}
    /\ LET r == pop_next_interrupt(interrupts_queue, interrupts_data)
       IN  /\ r.record # NoInterrupt
           /\ interrupts_queue' = r.queue
           /\ interrupts_data' = r.data
           /\ tick' = [IdleTick EXCEPT
                          !.pc = IF r.record.kind = SUPERCHAT THEN "sc_tts"
                                 ELSE "gift_llm",
                          !.interrupt = r.record]
           /\ popped' = popped \cup {r.record.interrupt_id}
    /\ UNCHANGED << AudioVars, ScriptVars, history, drain, EnvVars, ret,
                    produced, marks, resetAt, answer, recorded, failed_in >>
    /\ UNCHANGED DrainVars
    /\ UNCHANGED AsideVars

\* process_once when pop_next_interrupt returns a record: dispatch by kind.
process_interrupt ==
    /\ tick.pc = "idle"
    /\ LET r == pop_next_interrupt(interrupts_queue, interrupts_data)
       IN  /\ r.record # NoInterrupt
           /\ interrupts_queue' = r.queue
           /\ interrupts_data' = r.data
           /\ tick' = [IdleTick EXCEPT
                          !.pc = IF r.record.kind = SUPERCHAT THEN "sc_tts"
                                 ELSE "gift_llm",
                          !.interrupt = r.record]
           /\ popped' = popped \cup {r.record.interrupt_id}
    /\ UNCHANGED << AudioVars, ScriptVars, history, drain, EnvVars, ret,
                    produced, marks, resetAt, answer, recorded, failed_in >>
    /\ UNCHANGED DrainVars
    /\ UNCHANGED AsideVars

\* Mutant: a tick that finds the script queue empty loads the default script.
process_script_line_reload ==
    /\ tick.pc = "idle"
    /\ LET r == pop_next_interrupt(interrupts_queue, interrupts_data)
       IN  /\ r.record = NoInterrupt
           /\ interrupts_queue' = r.queue
           /\ interrupts_data' = r.data
    /\ IF script_queue = <<>>
       THEN /\ tick' = IdleTick
            /\ ret' = "none"
            /\ script_queue' = replace_script(DEFAULT_SCRIPT, GENERAL).queue
            /\ UNCHANGED yielded
       ELSE LET entry == Head(script_queue)
                parsed == parse_line(entry)
            IN  /\ script_queue' = Tail(script_queue)
                /\ yielded' = Append(yielded, entry)
                /\ IF Strip(entry.line) = <<>>
                   THEN tick' = IdleTick /\ ret' = "none"
                   ELSE IF parsed.raises
                   THEN tick' = IdleTick /\ ret' = "raised"
                   ELSE /\ tick' = [IdleTick EXCEPT !.pc = "line_tts",
                                                    !.line = parsed.line,
                                                    !.persona = parsed.speaker,
                                                    !.kind = entry.kind]
                        /\ UNCHANGED ret
    /\ UNCHANGED << AudioVars, history, line_index, plan, drain, EnvVars,
                    GhostVars >>
    /\ UNCHANGED DrainVars
    /\ UNCHANGED AsideVars

\* process_once when pop_next_interrupt returns None (empty queue, or an id
\* without a record, which is dropped): _handle_script_line up to the TTS call.
process_script_line ==
    /\ tick.pc = "idle"
    /\ LET r == pop_next_interrupt(interrupts_queue, interrupts_data)
       IN  /\ r.record = NoInterrupt
           /\ interrupts_queue' = r.queue
           /\ interrupts_data' = r.data
    /\ IF script_queue = <<>>
       THEN /\ tick' = IdleTick
            /\ ret' = "none"
            /\ UNCHANGED << script_queue, yielded >>
       ELSE LET entry == Head(script_queue)
                parsed == parse_line(entry)
            IN  /\ script_queue' = Tail(script_queue)
                /\ yielded' = Append(yielded, entry)
                /\ IF Strip(entry.line) = <<>>
                   THEN tick' = IdleTick /\ ret' = "none"
                   ELSE IF parsed.raises
                   THEN tick' = IdleTick /\ ret' = "raised"
                   ELSE /\ tick' = [IdleTick EXCEPT !.pc = "line_tts",
                                                    !.line = parsed.line,
                                                    !.persona = parsed.speaker,
                                                    !.kind = entry.kind]
                        /\ UNCHANGED ret
    /\ UNCHANGED << AudioVars, history, line_index, plan, drain, EnvVars,
                    GhostVars >>
    /\ UNCHANGED DrainVars
    /\ UNCHANGED AsideVars

\* _process_superchat: the TTS call returns, the chunk is enqueued.
superchat_audio ==
    /\ tick.pc = "sc_tts"
    /\ LET rec == tick.interrupt
           gen == generate_audio(rec.persona, rec.message, FALSE, 0)
       IN  IF gen.raises \/ rec.message = NoneStr
           THEN /\ RequeueAndReturn
                /\ UNCHANGED << AudioVars, produced >>
           ELSE LET e == enqueue_audio_chunk(audio_queue, next_chunk_id, SUPERCHAT,
                                             gen.audio, rec.message, rec.persona)
                IN  /\ audio_queue' = e.queue
                    /\ next_chunk_id' = e.counter
                    /\ issuedMax' = IF ToInt(e.chunk_id) > issuedMax
                                     THEN ToInt(e.chunk_id)
                                     ELSE issuedMax
                    /\ epochMax' = IF ToInt(e.chunk_id) > epochMax
                                    THEN ToInt(e.chunk_id)
                                    ELSE epochMax
                    /\ unrecorded' = unrecorded \cup {ToInt(e.chunk_id)}
                    /\ tick' = [tick EXCEPT !.pc = "sc_hist",
                                            !.chunk_id = e.chunk_id]
                    /\ produced' = [produced EXCEPT ![rec.interrupt_id] = @ + 1]
                    /\ UNCHANGED << InterruptVars, ret >>
    /\ UNCHANGED << ScriptVars, history, drain, EnvVars, marks, popped, resetAt,
                    answer, recorded, failed_in >>
    /\ UNCHANGED DrainVars
    /\ UNCHANGED AsideVars

\* Mutant: the history record is appended twice.
superchat_history_twice ==
    /\ tick.pc = "sc_hist"
    /\ LET h == HistoryRecord(tick.interrupt.persona, tick.interrupt.message,
                              SUPERCHAT, tick.chunk_id)
       IN  history' = Append(Append(history, h), h)
    /\ tick' = [tick EXCEPT !.pc = "sc_llm"]
    /\ unrecorded' = unrecorded \ {ToInt(tick.chunk_id)}
    /\ recorded' = [recorded EXCEPT ![tick.interrupt.interrupt_id] = @ + 2]
    /\ UNCHANGED << audio_queue, next_chunk_id, issuedMax, epochMax, InterruptVars,
                    ScriptVars, drain, EnvVars, ret, produced, marks, popped,
                    resetAt, answer, failed_in >>
    /\ UNCHANGED DrainVars
    /\ UNCHANGED AsideVars

\* _process_superchat: _append_history.
superchat_history ==
    /\ tick.pc = "sc_hist"
    /\ history' = Append(history,
                         HistoryRecord(tick.interrupt.persona, tick.interrupt.message,
                                       SUPERCHAT, tick.chunk_id))
    /\ tick' = [tick EXCEPT !.pc = "sc_llm"]
    /\ unrecorded' = unrecorded \ {ToInt(tick.chunk_id)}
    /\ recorded' = [recorded EXCEPT ![tick.interrupt.interrupt_id] = @ + 1]
    /\ UNCHANGED << audio_queue, next_chunk_id, issuedMax, epochMax, InterruptVars,
                    ScriptVars, drain, EnvVars, ret, produced, marks, popped,
                    resetAt, answer, failed_in >>
    /\ UNCHANGED DrainVars
    /\ UNCHANGED AsideVars

\* Mutant: the script is replaced whatever the LLM answered.
rewrite_and_mark_always(new_script, default_kind, status) ==
    /\ LET r == replace_script(new_script, default_kind)
       IN  /\ script_queue' = r.queue
           /\ line_index' = r.line_index
           /\ plan' = [script |-> new_script, kind |-> default_kind]
           /\ yielded' = <<>>
    /\ interrupts_data' =
           mark_interrupt_processed(interrupts_data, tick.interrupt.interrupt_id, status)
    /\ marks' = [marks EXCEPT ![tick.interrupt.interrupt_id] = @ + 1]
    /\ answer' = new_script
    /\ tick' = IdleTick
    /\ UNCHANGED << AudioVars, interrupts_queue, history, drain, EnvVars,
                    produced, popped, resetAt, recorded, failed_in >>
    /\ UNCHANGED DrainVars
    /\ UNCHANGED AsideVars

\* Mutant: the interrupt is marked but the new script is never loaded.
rewrite_and_mark_keep_script(new_script, default_kind, status) ==
    /\ UNCHANGED ScriptVars
    /\ interrupts_data' =
           mark_interrupt_processed(interrupts_data, tick.interrupt.interrupt_id, status)
    /\ marks' = [marks EXCEPT ![tick.interrupt.interrupt_id] = @ + 1]
    /\ answer' = new_script
    /\ tick' = IdleTick
    /\ UNCHANGED << AudioVars, interrupts_queue, history, drain, EnvVars,
                    produced, popped, resetAt, recorded, failed_in >>
    /\ UNCHANGED DrainVars
    /\ UNCHANGED AsideVars

\* The tail of _process_superchat and _process_gift: the LLM answers new_script,
\* the script is replaced when new_script is truthy, the interrupt is marked.
rewrite_and_mark(new_script, default_kind, status) ==
    /\ IF Truthy(new_script)
       THEN LET r == replace_script(new_script, default_kind)
            IN  /\ script_queue' = r.queue
                /\ line_index' = r.line_index
                /\ plan' = [script |-> new_script, kind |-> default_kind]
                /\ yielded' = <<>>
       ELSE UNCHANGED ScriptVars
    /\ interrupts_data' =
           mark_interrupt_processed(interrupts_data, tick.interrupt.interrupt_id, status)
    /\ marks' = [marks EXCEPT ![tick.interrupt.interrupt_id] = @ + 1]
    /\ answer' = new_script
    /\ tick' = IdleTick
    /\ UNCHANGED << AudioVars, interrupts_queue, history, drain, EnvVars,
                    produced, popped, resetAt, recorded, failed_in >>
    /\ UNCHANGED DrainVars
    /\ UNCHANGED AsideVars

superchat_rewrite ==
    /\ tick.pc = "sc_llm"
    /\ \E new_script \in LLMOutputs :
           rewrite_and_mark(new_script, GENERAL, "processed")
    /\ ret' = SUPERCHAT

\* Mutant: the gift script is loaded under the general category.
process_gift_general ==
    /\ tick.pc = "gift_llm"
    /\ \E new_script \in LLMOutputs :
           rewrite_and_mark(new_script, GENERAL, "queued_script")
    /\ ret' = GIFT

\* _process_gift: the LLM answers, the script is replaced under gift when the
\* answer is truthy, the interrupt is marked queued_script.
process_gift ==
    /\ tick.pc = "gift_llm"
    /\ \E new_script \in LLMOutputs :
           rewrite_and_mark(new_script, GIFT, "queued_script")
    /\ ret' = GIFT

\* _handle_script_line: the TTS call returns (or the best file is read), the
\* chunk is enqueued.
line_audio ==
    /\ tick.pc = "line_tts"
    /\ LET gen == generate_audio(tick.persona, tick.line, TRUE, line_index)
           e == enqueue_audio_chunk(audio_queue, next_chunk_id, tick.kind,
                                    gen.audio, tick.line, tick.persona)
       IN  /\ audio_queue' = e.queue
           /\ next_chunk_id' = e.counter
           /\ issuedMax' = IF ToInt(e.chunk_id) > issuedMax
                            THEN ToInt(e.chunk_id)
                            ELSE issuedMax
           /\ epochMax' = IF ToInt(e.chunk_id) > epochMax
                           THEN ToInt(e.chunk_id)
                           ELSE epochMax
           /\ unrecorded' = unrecorded \cup {ToInt(e.chunk_id)}
           /\ tick' = [tick EXCEPT !.pc = "line_hist", !.chunk_id = e.chunk_id]
    /\ UNCHANGED << InterruptVars, ScriptVars, history, drain, EnvVars, ret,
                    GhostVars >>
    /\ UNCHANGED DrainVars
    /\ UNCHANGED AsideVars

\* _handle_script_line: _append_history, line_index += 1, return.
line_history ==
    /\ tick.pc = "line_hist"
    /\ history' = Append(history,
                         HistoryRecord(tick.persona, tick.line, tick.kind,
                                       tick.chunk_id))
    /\ line_index' = line_index + 1
    /\ tick' = IdleTick
    /\ ret' = "line"
    /\ unrecorded' = unrecorded \ {ToInt(tick.chunk_id)}
    /\ UNCHANGED << audio_queue, next_chunk_id, issuedMax, epochMax, InterruptVars,
                    script_queue, plan, yielded, drain, EnvVars, GhostVars >>
    /\ UNCHANGED DrainVars
    /\ UNCHANGED AsideVars

\* The call the tick is blocked in raises: the TTS request (retries used up, or
\* an error outside the retried function), the history append, the LLM request.
\* Handling an interrupt, process_once requeues it; speaking a script line, the
\* exception leaves process_once.
call_raises ==
    /\ failures < MaxFailures
    /\ tick.pc \in {"sc_tts", "sc_hist", "sc_llm", "gift_llm", "line_tts", "line_hist"}
    /\ tick.pc = "line_tts" =>
           ~generate_audio(tick.persona, tick.line, TRUE, line_index).cached
    /\ failures' = failures + 1
    /\ IF tick.interrupt # NoInterrupt
       THEN /\ RequeueAndReturn
            /\ failed_in' = [failed_in EXCEPT ![tick.interrupt.interrupt_id] =
                                                  @ \cup {tick.pc}]
       ELSE /\ tick' = IdleTick
            /\ ret' = "raised"
            /\ UNCHANGED << InterruptVars, failed_in >>
    /\ UNCHANGED << AudioVars, ScriptVars, history, drain, registered, resets,
                    produced, marks, popped, resetAt, answer, recorded >>
    /\ UNCHANGED DrainVars
    /\ UNCHANGED AsideVars

NoFailNext ==
    \/ \E request \in Requests : trigger_interrupt(request)
    \/ \E d \in Drainers : fetch_audio_chunks(d) /\ UNCHANGED << DrainVars, AsideVars >>
    \/ reset_state
    \/ process_interrupt
    \/ process_script_line
    \/ superchat_audio
    \/ superchat_history
    \/ superchat_rewrite
    \/ process_gift
    \/ line_audio
    \/ line_history

Next == NoFailNext \/ call_raises

\* Every run: calls may raise.
Spec == Init /\ [][Next]_vars

\* Runs in which no remote or store call raises.
NoFailSpec == Init /\ [][NoFailNext]_vars

\* The steps of the worker (run_processor in app.py calls process_once in a loop).
ProcessorStep ==
    \/ process_interrupt
    \/ process_script_line
    \/ superchat_audio
    \/ superchat_history
    \/ superchat_rewrite
    \/ process_gift
    \/ line_audio
    \/ line_history

\* Runs without raising calls in which the worker keeps ticking and every
\* remote call it waits for returns.
FairNoFailSpec == NoFailSpec /\ WF_vars(ProcessorStep)

(***************************************************************************)
(* The script queue on its own: _replace_script and _pop_next_script_entry *)
(* applied to every string of at most MaxLen characters.                   *)
(***************************************************************************)
\* Every run, calls may raise, in which the worker keeps ticking and every
\* remote call it waits for returns or raises.
FairSpec == Spec /\ WF_vars(ProcessorStep)

ScriptChars == {"a", " ", "\n"}

ScriptInputs == UNION {[1..n -> ScriptChars] : n \in 0..MaxLen}

script_replace(script, default_kind) ==
    /\ LET r == replace_script(script, default_kind)
       IN  /\ script_queue' = r.queue
           /\ line_index' = r.line_index
    /\ plan' = [script |-> script, kind |-> default_kind]
    /\ yielded' = <<>>
    /\ UNCHANGED << AudioVars, InterruptVars, history, tick, drain, EnvVars, ret,
                    GhostVars >>
    /\ UNCHANGED DrainVars
    /\ UNCHANGED AsideVars

\* _pop_next_script_entry: LPOP.
pop_next_script_entry ==
    /\ script_queue # <<>>
    /\ script_queue' = Tail(script_queue)
    /\ yielded' = Append(yielded, Head(script_queue))
    /\ UNCHANGED << AudioVars, InterruptVars, history, line_index, plan, tick,
                    drain, EnvVars, ret, GhostVars >>
    /\ UNCHANGED DrainVars
    /\ UNCHANGED AsideVars

ScriptNext ==
    \/ \E script \in ScriptInputs, kind \in AudioKind : script_replace(script, kind)
    \/ pop_next_script_entry

ScriptSpec == Init /\ [][ScriptNext]_vars

(***************************************************************************)
(* The audio queue on its own: enqueue_audio_chunk, fetch_audio_chunks and *)
(* count_audio_chunks called in any order, an enqueue possibly between two *)
(* LPOPs of a drain.                                                       *)
(***************************************************************************)
\* The chunk ids of a list of chunks, as numbers.
ChunkIds(chunks) == [k \in 1..Len(chunks) |-> ToInt(chunks[k].chunk_id)]

audio_enqueue(kind, transcript, speaker) ==
    /\ next_chunk_id < MaxChunks
    /\ LET e == enqueue_audio_chunk(audio_queue, next_chunk_id, kind,
                                    [src |-> "tts", voice |-> speaker,
                                     text |-> transcript, index |-> 0],
                                    transcript, speaker)
       IN  /\ audio_queue' = e.queue
           /\ next_chunk_id' = e.counter
    /\ overlapped' = [d \in DOMAIN overlapped |-> TRUE]
    /\ UNCHANGED << issuedMax, epochMax, unrecorded, InterruptVars, ScriptVars,
                    history, tick, drain, EnvVars, ret, GhostVars, pending,
                    fetched, counted, delivered >>
    /\ UNCHANGED AsideVars

\* One step of fetch_audio_chunks by caller d, with the call's first step
\* noting the queue it found and its last step noting the list it returns.
audio_drain(d) ==
    /\ fetch_audio_chunks(d)
    /\ pending' = IF drain[d].pc = "idle"
                  THEN [pending EXCEPT ![d] = audio_queue]
                  ELSE pending
    /\ overlapped' = IF drain[d].pc = "idle"
                     THEN [overlapped EXCEPT ![d] = FALSE]
                     ELSE overlapped
    /\ fetched' = IF drain'[d].pc = "idle"
                  THEN [fetched EXCEPT ![d] = IF drain[d].pc = "idle" THEN <<>>
                                              ELSE drain[d].chunks]
                  ELSE fetched
    /\ delivered' = IF drain'[d].pc = "idle" /\ drain[d].pc # "idle"
                    THEN [delivered EXCEPT ![d] = @ \o ChunkIds(drain[d].chunks)]
                    ELSE delivered
    /\ UNCHANGED counted
    /\ UNCHANGED AsideVars

audio_count ==
    /\ counted' = [flip |-> ~counted.flip, result |-> count_audio_chunks]
    /\ UNCHANGED << AudioVars, InterruptVars, ScriptVars, history, tick, drain,
                    EnvVars, ret, GhostVars, pending, overlapped, fetched,
                    delivered >>
    /\ UNCHANGED AsideVars

AudioNext ==
    \/ \E kind \in AudioKind, speaker \in PERSONA_REFERENCES :
           audio_enqueue(kind, <<"a">>, speaker)
    \/ \E d \in Drainers : audio_drain(d)
    \/ audio_count

AudioSpec == Init /\ [][AudioNext]_vars

(***************************************************************************)
(* Script lines on their own: one script is loaded, whose first line is    *)
(* "[" followed by at most MaxLen characters, and the worker speaks it     *)
(* with no interrupt registered.                                           *)
(***************************************************************************)
LineChars == {"[", "]", "S", "a", " "}

LineInputs ==
    { <<"[">> \o t : t \in UNION {[1..n -> LineChars] : n \in 0..MaxLen} }

SecondLines == { <<>>, <<"\n", "[", "P", "]", " ", "b">> }

line_load(script, default_kind) ==
    /\ tick.pc = "idle"
    /\ plan.script = <<>>
    /\ script_replace(script, default_kind)

LineNext ==
    \/ \E first \in LineInputs, rest \in SecondLines, kind \in AudioKind :
           line_load(first \o rest, kind)
    \/ process_script_line
    \/ line_audio
    \/ line_history

LineSpec == Init /\ [][LineNext]_vars

(***************************************************************************)
(* The interrupt store as pop_next_interrupt may find it: any list of at   *)
(* most MaxInterrupts ids, with or without a record for each id.  The      *)
(* worker ticks on such a store; nothing is registered.                    *)
(***************************************************************************)
(***************************************************************************)
(* Two callers inside fetch_audio_chunks at once (GET /audio served by two *)
(* workers), their LPOPs interleaved with each other and with the          *)
(* worker's enqueue_audio_chunk.                                           *)
(***************************************************************************)
DrainCallers == {"d1", "d2"}

DrainInit ==
    /\ audio_queue = <<>>
    /\ next_chunk_id = 0
    /\ interrupts_queue = <<>>
    /\ interrupts_data = <<>>
    /\ script_queue = <<>>
    /\ history = <<>>
    /\ line_index = 0
    /\ tick = IdleTick
    /\ drain = [d \in DrainCallers |-> [pc |-> "idle", chunks |-> <<>>]]
    /\ registered = 0
    /\ failures = 0
    /\ resets = 0
    /\ ret = "none"
    /\ produced = [i \in InterruptIds |-> 0]
    /\ marks = [i \in InterruptIds |-> 0]
    /\ popped = {}
    /\ resetAt = 0
    /\ issuedMax = 0
    /\ epochMax = 0
    /\ plan = [script |-> <<>>, kind |-> GENERAL]
    /\ yielded = <<>>
    /\ unrecorded = {}
    /\ answer = <<>>
    /\ recorded = [i \in InterruptIds |-> 0]
    /\ failed_in = [i \in InterruptIds |-> {}]
    /\ pending = [d \in DrainCallers |-> <<>>]
    /\ overlapped = [d \in DrainCallers |-> FALSE]
    /\ fetched = [d \in DrainCallers |-> <<>>]
    /\ counted = [flip |-> FALSE, result |-> 0]
    /\ delivered = [d \in DrainCallers |-> <<>>]
    /\ AsideIdle

DrainNext ==
    \/ \E kind \in AudioKind, speaker \in PERSONA_REFERENCES :
           audio_enqueue(kind, <<"a">>, speaker)
    \/ \E d \in DrainCallers : audio_drain(d)

DrainSpec == DrainInit /\ [][DrainNext]_vars

\* The record register_interrupt writes for id i: a superchat for an odd id,
\* a gift for an even one.
StoredRecord(i) ==
    IF i % 2 = 1
    THEN register_interrupt(<<>>, <<>>, i, SUPERCHAT, <<"T">>, <<"y", "o">>).data[i]
    ELSE register_interrupt(<<>>, <<>>, i, GIFT, NoneStr, NoneStr).data[i]

QueueInputs == UNION {[1..n -> InterruptIds] : n \in 0..MaxInterrupts}

DataInputs == { [i \in S |-> StoredRecord(i)] : S \in SUBSET InterruptIds }

PopInit ==
    /\ audio_queue = <<>>
    /\ next_chunk_id = 0
    /\ interrupts_queue \in QueueInputs
    /\ interrupts_data \in DataInputs
    /\ script_queue \in {<<>>, replace_script(DEFAULT_SCRIPT, GENERAL).queue}
    /\ history = <<>>
    /\ line_index = 0
    /\ tick = IdleTick
    /\ drain = [d \in Drainers |-> [pc |-> "idle", chunks |-> <<>>]]
    /\ registered = MaxInterrupts
    /\ failures = 0
    /\ resets = 0
    /\ ret = "none"
    /\ produced = [i \in InterruptIds |-> 0]
    /\ marks = [i \in InterruptIds |-> 0]
    /\ popped = {}
    /\ resetAt = 0
    /\ issuedMax = 0
    /\ epochMax = 0
    /\ plan = [script |-> IF script_queue = <<>> THEN <<>> ELSE DEFAULT_SCRIPT,
               kind |-> GENERAL]
    /\ yielded = <<>>
    /\ unrecorded = {}
    /\ answer = <<>>
    /\ recorded = [i \in InterruptIds |-> 0]
    /\ failed_in = [i \in InterruptIds |-> {}]
    /\ pending = [d \in Drainers |-> <<>>]
    /\ overlapped = [d \in Drainers |-> FALSE]
    /\ fetched = [d \in Drainers |-> <<>>]
    /\ counted = [flip |-> FALSE, result |-> 0]
    /\ delivered = [d \in Drainers |-> <<>>]
    /\ AsideIdle

PopSpec == PopInit /\ [][ProcessorStep]_vars

(***************************************************************************)
(* The tick driver on its own: run_processor and lifespan's shutdown in    *)
(* app.py.  process_once runs in a thread and ends by returning or by      *)
(* raising; it may also never end.                                         *)
(***************************************************************************)
(***************************************************************************)
(* The worker on a store filled by direct calls of register_interrupt,     *)
(* which accepts a superchat without persona: nothing more is registered.  *)
(***************************************************************************)
\* The arguments of the calls of register_interrupt.
StarveRequests ==
    { [kind |-> SUPERCHAT, persona |-> <<"T">>, message |-> <<"y", "o">>],
      [kind |-> SUPERCHAT, persona |-> NoneStr, message |-> <<"y", "o">>],
      [kind |-> GIFT, persona |-> NoneStr, message |-> NoneStr] }

\* The store after register_interrupt was called for each of reqs in turn.
RegisterAll(reqs) ==
    LET f[k \in 0..Len(reqs)] ==
            IF k = 0
            THEN [queue |-> <<>>, data |-> <<>>]
            ELSE register_interrupt(f[k - 1].queue, f[k - 1].data, k,
                                    reqs[k].kind, reqs[k].persona, reqs[k].message)
    IN  f[Len(reqs)]

StarveInit ==
    /\ audio_queue = <<>>
    /\ next_chunk_id = 0
    /\ \E n \in 0..MaxInterrupts :
           \E reqs \in [1..n -> StarveRequests] :
               /\ interrupts_queue = RegisterAll(reqs).queue
               /\ interrupts_data = RegisterAll(reqs).data
    /\ script_queue \in {<<>>, replace_script(DEFAULT_SCRIPT, GENERAL).queue}
    /\ history = <<>>
    /\ line_index = 0
    /\ tick = IdleTick
    /\ drain = [d \in Drainers |-> [pc |-> "idle", chunks |-> <<>>]]
    /\ registered = MaxInterrupts
    /\ failures = 0
    /\ resets = 0
    /\ ret = "none"
    /\ produced = [i \in InterruptIds |-> 0]
    /\ marks = [i \in InterruptIds |-> 0]
    /\ popped = {}
    /\ resetAt = 0
    /\ issuedMax = 0
    /\ epochMax = 0
    /\ plan = [script |-> IF script_queue = <<>> THEN <<>> ELSE DEFAULT_SCRIPT,
               kind |-> GENERAL]
    /\ yielded = <<>>
    /\ unrecorded = {}
    /\ answer = <<>>
    /\ recorded = [i \in InterruptIds |-> 0]
    /\ failed_in = [i \in InterruptIds |-> {}]
    /\ pending = [d \in Drainers |-> <<>>]
    /\ overlapped = [d \in Drainers |-> FALSE]
    /\ fetched = [d \in Drainers |-> <<>>]
    /\ counted = [flip |-> FALSE, result |-> 0]
    /\ delivered = [d \in Drainers |-> <<>>]
    /\ AsideIdle

StarveSpec == StarveInit /\ [][ProcessorStep]_vars

\* The worker keeps ticking and every remote call it waits for returns or raises.
FairStarveSpec == StarveSpec /\ WF_vars(ProcessorStep)

Exited == {"done", "cancelled"}

StoreVars ==
    << AudioVars, InterruptVars, ScriptVars, history, tick, drain, EnvVars, ret,
       GhostVars, DrainVars >>

NotDriverVars == << StoreVars, tts_attempts, FnVars >>

\* The loop head, reached when the task first runs and after each sleep:
\* leave the loop when stop_event is set, else hand process_once to a thread
\* and wait for it.
run_processor_loop ==
    /\ worker_task.pc \in {"created", "sleep", "sleep_err"}
    /\ ~worker_task.must_cancel
    /\ IF stop_event
       THEN /\ worker_task' = [worker_task EXCEPT !.pc = "done"]
            /\ UNCHANGED in_flight
       ELSE /\ Len(outcomes) + in_flight < MaxTicks
            /\ worker_task' = [worker_task EXCEPT !.pc = "to_thread"]
            /\ in_flight' = in_flight + 1
    /\ UNCHANGED << stop_event, outcomes >>
    /\ UNCHANGED NotDriverVars

\* process_once returns in its thread; run_processor, when it still waits for
\* it, goes to sleep for PROCESSOR_LOOP_INTERVAL.
process_once_returns ==
    /\ in_flight > 0
    /\ in_flight' = in_flight - 1
    /\ outcomes' = Append(outcomes, "returned")
    /\ worker_task' = IF worker_task.pc = "to_thread" /\ ~worker_task.must_cancel
                      THEN [worker_task EXCEPT !.pc = "sleep"]
                      ELSE worker_task
    /\ UNCHANGED stop_event
    /\ UNCHANGED NotDriverVars

\* Mutant: the exception ends run_processor.
process_once_raises_exit ==
    /\ in_flight > 0
    /\ in_flight' = in_flight - 1
    /\ outcomes' = Append(outcomes, "raised")
    /\ worker_task' = IF worker_task.pc = "to_thread" /\ ~worker_task.must_cancel
                      THEN [worker_task EXCEPT !.pc = "done"]
                      ELSE worker_task
    /\ UNCHANGED stop_event
    /\ UNCHANGED NotDriverVars

\* process_once raises in its thread; run_processor, when it still waits for
\* it, logs the exception and sleeps one second before the next call.
process_once_raises ==
    /\ in_flight > 0
    /\ in_flight' = in_flight - 1
    /\ outcomes' = Append(outcomes, "raised")
    /\ worker_task' = IF worker_task.pc = "to_thread" /\ ~worker_task.must_cancel
                      THEN [worker_task EXCEPT !.pc = "sleep_err"]
                      ELSE worker_task
    /\ UNCHANGED stop_event
    /\ UNCHANGED NotDriverVars

\* lifespan after its yield: stop_event.set() and worker_task.cancel(), with
\* no await between the two.
lifespan_shutdown ==
    /\ ~stop_event
    /\ stop_event' = TRUE
    /\ worker_task' = IF worker_task.pc \in Exited
                      THEN worker_task
                      ELSE [worker_task EXCEPT !.must_cancel = TRUE]
    /\ UNCHANGED << in_flight, outcomes >>
    /\ UNCHANGED NotDriverVars

\* CancelledError reaches run_processor where it waits: inside the try it is
\* caught and the loop is left (the thread goes on running); in a sleep, or
\* before the coroutine first ran, it ends the task.
cancel_delivered ==
    /\ worker_task.must_cancel
    /\ worker_task' = [pc |-> IF worker_task.pc = "to_thread" THEN "done"
                              ELSE "cancelled",
                       must_cancel |-> FALSE]
    /\ UNCHANGED << stop_event, in_flight, outcomes >>
    /\ UNCHANGED NotDriverVars

\* The steps the event loop takes for run_processor.
DriverStep == run_processor_loop \/ cancel_delivered

DriverNext ==
    \/ run_processor_loop
    \/ process_once_returns
    \/ process_once_raises
    \/ lifespan_shutdown
    \/ cancel_delivered

DriverSpec == Init /\ [][DriverNext]_vars

\* The event loop runs a task that is ready: a sleep ends, a cancellation
\* is delivered.
FairDriverSpec == DriverSpec /\ WF_vars(DriverStep)

(***************************************************************************)
(* Script lines with a TTS endpoint that fails: the retry decorator of     *)
(* generate_audio_with_reference calls the endpoint again after each       *)
(* attempt that raised, and the tick waits in asyncio.run until the        *)
(* requests of the line have returned.                                     *)
(***************************************************************************)
\* Mutant: an attempt that raised leaves a chunk without audio in the queue.
tts_attempt_fails_enqueues ==
    /\ tick.pc = "line_tts"
    /\ ~generate_audio(tick.persona, tick.line, TRUE, line_index).cached
    /\ tts_attempts < MaxRetries
    /\ tts_attempts' = tts_attempts + 1
    /\ LET e == enqueue_audio_chunk(audio_queue, next_chunk_id, tick.kind,
                                    [src |-> "none", voice |-> <<>>,
                                     text |-> <<>>, index |-> 0],
                                    tick.line, tick.persona)
       IN  /\ audio_queue' = e.queue
           /\ next_chunk_id' = e.counter
    /\ UNCHANGED << issuedMax, epochMax, unrecorded, InterruptVars, ScriptVars,
                    history, tick, drain, EnvVars, ret, GhostVars, DrainVars,
                    DriverVars, FnVars >>

\* One attempt of a request of the line raises and tenacity, its attempts
\* not used up, sleeps and calls again: the tick stays in its TTS call.
tts_attempt_fails ==
    /\ tick.pc = "line_tts"
    /\ ~generate_audio(tick.persona, tick.line, TRUE, line_index).cached
    /\ tts_attempts < MaxRetries
    /\ tts_attempts' = tts_attempts + 1
    /\ UNCHANGED << AudioVars, InterruptVars, ScriptVars, history, tick, drain,
                    EnvVars, ret, GhostVars, DrainVars, DriverVars, FnVars >>

RetryLineNext ==
    \/ \E first \in LineInputs, rest \in SecondLines, kind \in AudioKind :
           line_load(first \o rest, kind)
    \/ process_script_line
    \/ tts_attempt_fails
    \/ line_audio
    \/ line_history

RetryLineSpec == Init /\ [][RetryLineNext]_vars

(***************************************************************************)
(* The Valid-Score on its own: any transcription the speech-to-text        *)
(* endpoint may return, against any requested text, each of at most        *)
(* MaxText characters.                                                     *)
(***************************************************************************)
TextChars == {"s", "S", " ", "!"}

TextInputs == UNION {[1..n -> TextChars] : n \in 0..MaxText}

WerInit ==
    /\ StoreIdle
    /\ DriverIdle
    /\ tts_attempts = 0
    /\ RetryIdle
    /\ SampleIdle
    /\ \E transcription \in TextInputs, reference_transcript \in TextInputs :
           score = [pc |-> "called", transcription |-> transcription,
                    reference_transcript |-> reference_transcript,
                    result |-> [num |-> 0, den |-> 1]]

\* aget_valid_score returns.
valid_score_returns ==
    /\ score.pc = "called"
    /\ score' = [score EXCEPT
                     !.pc = "returned",
                     !.result = aget_valid_score(score.transcription,
                                                 score.reference_transcript)]
    /\ UNCHANGED << StoreVars, DriverVars, tts_attempts, retry, sample >>

WerNext == valid_score_returns

WerSpec == WerInit /\ [][WerNext]_vars

(***************************************************************************)
(* One call of generate_audio_with_reference under its tenacity decorator: *)
(* the endpoint is called, and called again after each attempt that        *)
(* raised, until an attempt returns or the attempts are used up.           *)
(***************************************************************************)
\* stop=stop_after_attempt(10000)
stop_after_attempt == 10000

\* The call is made: the first attempt.
retry_call ==
    /\ retry.pc = "idle"
    /\ retry' = [pc |-> "attempt", attempt_number |-> 1]
    /\ UNCHANGED << StoreVars, DriverVars, tts_attempts, sample, score >>

\* The attempt returns audio: the call returns it.
retry_attempt_returns ==
    /\ retry.pc = "attempt"
    /\ retry' = [retry EXCEPT !.pc = "returned"]
    /\ UNCHANGED << StoreVars, DriverVars, tts_attempts, sample, score >>

\* Mutant: the first attempt that raises ends the call.
retry_attempt_raises_once ==
    /\ retry.pc = "attempt"
    /\ retry' = [retry EXCEPT !.pc = "raised"]
    /\ UNCHANGED << StoreVars, DriverVars, tts_attempts, sample, score >>

\* The attempt raises an Exception: when the attempt number has reached
\* stop_after_attempt the exception is raised to the caller (reraise=True),
\* else tenacity waits (wait_exponential) and makes the next attempt.
retry_attempt_raises ==
    /\ retry.pc = "attempt"
    /\ retry' = IF retry.attempt_number >= stop_after_attempt
                THEN [retry EXCEPT !.pc = "raised"]
                ELSE [retry EXCEPT !.attempt_number = @ + 1]
    /\ UNCHANGED << StoreVars, DriverVars, tts_attempts, sample, score >>

RetryNext ==
    \/ retry_call
    \/ retry_attempt_returns
    \/ retry_attempt_raises

RetrySpec == Init /\ [][RetryNext]_vars

(***************************************************************************)
(* One call of agenerate_audio_with_persona past the cached file: the      *)
(* requests it issues, the gather, the choice.  The audio of the request   *)
(* at position i of the gather is i.                                       *)
(***************************************************************************)
OptionalInts == {NoneInt} \cup { [given |-> TRUE, count |-> c] : c \in 0..MaxN }

\* The text to synthesize, and what the speech-to-text endpoint may hear in
\* a candidate.
SampleScript == <<"s", " ", "s">>

SampleTranscriptions ==
    { <<>>, <<"s">>, <<"s", " ", "s">>, <<"s", " ", "s", " ", "s">> }

SampleInit ==
    /\ StoreIdle
    /\ DriverIdle
    /\ tts_attempts = 0
    /\ RetryIdle
    /\ ScoreIdle
    /\ \E n \in OptionalInts, valid_sampling \in OptionalInts :
           sample = [pc |-> "called", n |-> n, valid_sampling |-> valid_sampling,
                     issued |-> 0, returned |-> {}, audio_b64s |-> <<>>,
                     scores |-> <<>>, audio_b64 |-> 0,
                     persona |-> DEFAULT_STREAMER_PERSONA, line_index |-> NoneInt,
                     cached |-> FALSE]

\* a >= b for fractions with positive denominators.
AtLeast(a, b) == a.num * b.den >= b.num * a.den

\* np.argmax(scores): the first position holding the greatest score.
argmax(scores) ==
    CHOOSE i \in 1..Len(scores) :
        /\ \A j \in 1..Len(scores) : AtLeast(scores[i], scores[j])
        /\ \A j \in 1..(i - 1) : ~AtLeast(scores[j], scores[i])

\* "if valid_sampling is not None or n is not None": n = valid_sampling or n,
\* then one agenerate_audio_with_reference per element of range(n); else the
\* single request.  range(None) raises TypeError.
generate_issue ==
    /\ sample.pc = "called"
    /\ IF ~sample.valid_sampling.given /\ ~sample.n.given
       THEN sample' = [sample EXCEPT !.pc = "single", !.issued = 1]
       ELSE LET n == IF sample.valid_sampling.given /\ sample.valid_sampling.count # 0
                     THEN sample.valid_sampling
                     ELSE sample.n
            IN  IF ~n.given
                THEN sample' = [sample EXCEPT !.pc = "raised"]
                ELSE sample' = [sample EXCEPT !.pc = "gather", !.issued = n.count]
    /\ UNCHANGED << StoreVars, DriverVars, tts_attempts, retry, score >>

\* One of the requests of the gather returns its audio.
generate_request_returns(i) ==
    /\ sample.pc = "gather"
    /\ i \in (1..sample.issued) \ sample.returned
    /\ sample' = [sample EXCEPT !.returned = @ \cup {i}]
    /\ UNCHANGED << StoreVars, DriverVars, tts_attempts, retry, score >>

\* Mutant: the first candidate is returned whatever the scores.
generate_choose_first ==
    /\ sample.pc = "gather"
    /\ sample.returned = 1..sample.issued
    /\ LET audio_b64s == [i \in 1..sample.issued |-> i]
       IN  IF sample.issued = 0
           THEN sample' = [sample EXCEPT !.pc = "raised"]
           ELSE IF sample.valid_sampling.given
           THEN \E heard \in [1..sample.issued -> SampleTranscriptions] :
                    LET scores == [i \in 1..sample.issued |->
                                      aget_valid_score(heard[i], SampleScript)]
                    IN  sample' = [sample EXCEPT !.pc = "returned",
                                                 !.audio_b64s = audio_b64s,
                                                 !.scores = scores,
                                                 !.audio_b64 = audio_b64s[1]]
           ELSE sample' = [sample EXCEPT !.pc = "returned",
                                         !.audio_b64s = audio_b64s,
                                         !.audio_b64 = audio_b64s[1]]
    /\ UNCHANGED << StoreVars, DriverVars, tts_attempts, retry, score >>

\* asyncio.gather has returned the audios of all requests, in the order of
\* the requests: with valid_sampling not None each is scored and the one at
\* np.argmax(scores) is returned, else the first.  With no request issued
\* np.argmax of an empty list, or audio_b64s[0], raises.
generate_choose ==
    /\ sample.pc = "gather"
    /\ sample.returned = 1..sample.issued
    /\ LET audio_b64s == [i \in 1..sample.issued |-> i]
       IN  IF sample.issued = 0
           THEN sample' = [sample EXCEPT !.pc = "raised"]
           ELSE IF sample.valid_sampling.given
           THEN \E heard \in [1..sample.issued -> SampleTranscriptions] :
                    LET scores == [i \in 1..sample.issued |->
                                      aget_valid_score(heard[i], SampleScript)]
                    IN  sample' = [sample EXCEPT !.pc = "returned",
                                                 !.audio_b64s = audio_b64s,
                                                 !.scores = scores,
                                                 !.audio_b64 = audio_b64s[argmax(scores)]]
           ELSE sample' = [sample EXCEPT !.pc = "returned",
                                         !.audio_b64s = audio_b64s,
                                         !.audio_b64 = audio_b64s[1]]
    /\ UNCHANGED << StoreVars, DriverVars, tts_attempts, retry, score >>

\* Neither n nor valid_sampling: the single request returns.
generate_single_returns ==
    /\ sample.pc = "single"
    /\ sample' = [sample EXCEPT !.pc = "returned", !.returned = {1},
                                !.audio_b64s = <<1>>, !.audio_b64 = 1]
    /\ UNCHANGED << StoreVars, DriverVars, tts_attempts, retry, score >>

SampleNext ==
    \/ generate_issue
    \/ \E i \in 1..MaxN : generate_request_returns(i)
    \/ generate_choose
    \/ generate_single_returns

SampleSpec == SampleInit /\ [][SampleNext]_vars

(***************************************************************************)
(* One call of agenerate_audio_with_persona from its first line: any       *)
(* persona, line_index None or a number, n and valid_sampling None or a    *)
(* count; the cached best file is looked up before any request.            *)
(***************************************************************************)
GenPersonas == PERSONA_REFERENCES \cup {<<"T">>, NoneStr}

LineIndexes == {NoneInt} \cup { [given |-> TRUE, count |-> i] : i \in 0..1 }

GenInit ==
    /\ StoreIdle
    /\ DriverIdle
    /\ tts_attempts = 0
    /\ RetryIdle
    /\ ScoreIdle
    /\ \E persona \in GenPersonas, index \in LineIndexes,
          n \in OptionalInts, valid_sampling \in OptionalInts :
           sample = [pc |-> "entered", n |-> n, valid_sampling |-> valid_sampling,
                     issued |-> 0, returned |-> {}, audio_b64s |-> <<>>,
                     scores |-> <<>>, audio_b64 |-> 0,
                     persona |-> persona, line_index |-> index,
                     cached |-> FALSE]

\* Mutant: the best file is not looked up.
generate_lookup_skip ==
    /\ sample.pc = "entered"
    /\ LET gen == generate_audio(sample.persona, SampleScript,
                                 sample.line_index.given, sample.line_index.count)
       IN  IF gen.raises
           THEN sample' = [sample EXCEPT !.pc = "raised"]
           ELSE sample' = [sample EXCEPT !.pc = "called"]
    /\ UNCHANGED << StoreVars, DriverVars, tts_attempts, retry, score >>

\* agenerate_audio_with_persona up to the branch on n and valid_sampling: the
\* persona key (a persona of None raises), then, with line_index given and
\* the best file present, the file's bytes are returned.
generate_lookup ==
    /\ sample.pc = "entered"
    /\ LET gen == generate_audio(sample.persona, SampleScript,
                                 sample.line_index.given, sample.line_index.count)
       IN  IF gen.raises
           THEN sample' = [sample EXCEPT !.pc = "raised"]
           ELSE IF gen.cached
           THEN sample' = [sample EXCEPT !.pc = "returned", !.cached = TRUE]
           ELSE sample' = [sample EXCEPT !.pc = "called"]
    /\ UNCHANGED << StoreVars, DriverVars, tts_attempts, retry, score >>

GenNext ==
    \/ generate_lookup
    \/ generate_issue
    \/ \E i \in 1..MaxN : generate_request_returns(i)
    \/ generate_choose
    \/ generate_single_returns

GenSpec == GenInit /\ [][GenNext]_vars

Terminal == {"processed", "queued_script"}

\* Interrupt ids registered so far whose record is in the map.
Stored == DOMAIN interrupts_data

InQueue(i) == \E k \in 1..Len(interrupts_queue) : interrupts_queue[k] = i

\* C1: in runs where no call raises, a superchat has at most one chunk and a
\* gift none; an interrupt is marked at most once; its status is terminal
\* exactly when it has been marked, and then it is processed with exactly one
\* chunk (superchat) or queued_script with none (gift).
C1_ExactlyOnce ==
    /\ \A i \in InterruptIds : produced[i] <= 1 /\ marks[i] <= 1
    /\ \A i \in Stored :
           LET rec == interrupts_data[i]
           IN  /\ rec.kind = GIFT => produced[i] = 0
               /\ (rec.status \in Terminal) <=> (marks[i] = 1)
               /\ marks[i] = 1 =>
                      /\ rec.kind = SUPERCHAT =>
                             rec.status = "processed" /\ produced[i] = 1
                      /\ rec.kind = GIFT => rec.status = "queued_script"

C1_Witness ==
    \E i, j \in Stored :
        /\ interrupts_data[i].kind = SUPERCHAT
        /\ interrupts_data[i].status = "processed"
        /\ produced[i] = 1
        /\ interrupts_data[j].kind = GIFT
        /\ interrupts_data[j].status = "queued_script"
        /\ produced[j] = 0

\* C2: when no call raises and the worker keeps ticking, every interrupt in
\* the map eventually has a terminal status and is out of the queue (or the
\* map has been cleared by reset_state), and an interrupt with a terminal
\* status is never in the queue.
C2_EventuallyTerminal ==
    /\ \A i \in InterruptIds :
           (i \in Stored) ~>
               \/ i \notin Stored
               \/ interrupts_data[i].status \in Terminal /\ ~InQueue(i)
    /\ [](\A i \in Stored : interrupts_data[i].status \in Terminal => ~InQueue(i))

C2_Witness ==
    /\ registered = MaxInterrupts
    /\ resets = 0
    /\ interrupts_queue = <<>>
    /\ \A i \in InterruptIds :
           i \in Stored /\ interrupts_data[i].status \in Terminal

\* Ids registered since the last reset_state (ids are given in registration
\* order: a later registration has a larger id).
Epoch == (resetAt + 1)..registered

\* C3: interrupts are first popped in registration order, under every
\* interleaving of registrations with the steps of the worker: an interrupt
\* that has been popped was registered after no interrupt that is still
\* waiting for its first pop; the interrupts waiting for their first pop are
\* all in the queue, in registration order.
C3_Fifo ==
    /\ \A i \in popped \cap Epoch : \A j \in Epoch : j < i => j \in popped
    /\ \A j \in Epoch \ popped : InQueue(j)
    /\ \A a, b \in 1..Len(interrupts_queue) :
           /\ a < b
           /\ interrupts_queue[a] \notin popped
           /\ interrupts_queue[b] \notin popped
           => interrupts_queue[a] < interrupts_queue[b]

C3_Witness ==
    /\ Cardinality(popped \cap Epoch) >= 2
    /\ resets = 0

\* Stages of a tick that is speaking a script line.
LineStages == {"line_tts", "line_hist"}

\* A step that is not a registration, a drain or a reset: a step of the worker.
WorkerStep == registered' = registered /\ drain' = drain /\ resets' = resets

\* C4: a tick that starts while the interrupt queue is not empty takes the
\* interrupt at its head, leaves the script queue alone and does not enter
\* the script-line stages; a tick that is handling an interrupt never pops a
\* script line nor enters those stages; a script line is popped, and its
\* synthesis started, only by a tick that starts on an empty interrupt queue.
C4_Preempt ==
    [][ /\ (tick.pc = "idle" /\ interrupts_queue # <<>> /\ WorkerStep) =>
               /\ tick'.interrupt # NoInterrupt
               /\ tick'.interrupt.interrupt_id = Head(interrupts_queue)
               /\ script_queue' = script_queue
               /\ yielded' = yielded
               /\ tick'.pc \notin LineStages
        /\ tick.interrupt # NoInterrupt =>
               /\ tick'.pc \notin LineStages
               /\ Len(yielded') <= Len(yielded)
        /\ (Len(yielded') > Len(yielded) \/ (tick'.pc \in LineStages /\ tick.pc \notin LineStages)) =>
               /\ tick.pc = "idle"
               /\ interrupts_queue = <<>>
               /\ tick'.interrupt = NoInterrupt
      ]_vars

\* A tick is handling an interrupt while script lines wait in the queue.
C4_Witness ==
    /\ tick.interrupt # NoInterrupt
    /\ script_queue # <<>>
    /\ yielded # <<>>

\* The history holds a record with the chunk's chunk_id and speaker.
HasRecord(chunk) ==
    \E k \in 1..Len(history) :
        /\ history[k].chunk_id = chunk.chunk_id
        /\ history[k].persona = chunk.speaker

\* The chunks a drain in progress has collected so far.
Collected(d) == IF drain[d].pc = "idle" THEN <<>> ELSE drain[d].chunks

\* C5 as claimed: when a drain returns (its LPOP finds the queue empty), every
\* chunk it returns has a history record with the same chunk_id and speaker.
C5_Original ==
    [][ \A d \in Drainers :
            (drain[d].pc = "loop" /\ drain'[d].pc = "idle") =>
                \A k \in 1..Len(drain[d].chunks) : HasRecord(drain[d].chunks[k])
      ]_vars

\* C5 amended: a chunk in the audio queue or collected by a drain has a
\* history record with the same chunk_id and speaker unless the history append
\* that follows its enqueue has not completed; when no call has raised that
\* is at most the one chunk of the tick that stands between the two steps.
C5_RecordedUnlessPending ==
    /\ \A k \in 1..Len(audio_queue) :
           ToInt(audio_queue[k].chunk_id) \notin unrecorded => HasRecord(audio_queue[k])
    /\ \A d \in Drainers : \A k \in 1..Len(Collected(d)) :
           ToInt(Collected(d)[k].chunk_id) \notin unrecorded =>
               HasRecord(Collected(d)[k])
    /\ failures = 0 =>
           unrecorded = IF tick.pc \in {"sc_hist", "line_hist"}
                        THEN {ToInt(tick.chunk_id)}
                        ELSE {}

\* A drain holds a recorded chunk and the chunk of the tick in progress, whose
\* record is still to be appended.
C5_Witness ==
    \E d \in Drainers : \E k, m \in 1..Len(Collected(d)) :
        /\ HasRecord(Collected(d)[k])
        /\ ToInt(Collected(d)[m].chunk_id) \in unrecorded
        /\ ~HasRecord(Collected(d)[m])

\* The chunk_id strings of a chunk list are decimal integers in strictly
\* increasing order.
IncreasingIds(chunks) ==
    /\ \A k \in 1..Len(chunks) : ToStr(ToInt(chunks[k].chunk_id)) = chunks[k].chunk_id
    /\ \A a, b \in 1..Len(chunks) :
           a < b => ToInt(chunks[a].chunk_id) < ToInt(chunks[b].chunk_id)

\* C6: the chunks a drain has collected, followed by the chunks still in the
\* audio queue, carry strictly increasing integer chunk_ids, the order in
\* which enqueue_audio_chunk numbered and pushed them; so does the list each
\* drain returns, whatever the kinds of its chunks.
C6_DrainOrdered ==
    \A d \in Drainers : IncreasingIds(Collected(d) \o audio_queue)

\* A drain has collected a superchat chunk between two script-line chunks.
C6_Witness ==
    \E d \in Drainers :
        /\ Len(Collected(d)) = 3
        /\ Collected(d)[1].kind = GENERAL
        /\ Collected(d)[2].kind = SUPERCHAT
        /\ Collected(d)[3].kind = GENERAL

\* The step enqueues a chunk.
EnqueueStep == Len(audio_queue') > Len(audio_queue)

\* The chunk_id the enqueuing step assigned.
AssignedId == ToInt(audio_queue'[Len(audio_queue')].chunk_id)

\* C7 as claimed: over the whole life of the process, resets included, an
\* enqueue never assigns a chunk_id that is not above every id assigned before.
C7_Original == [][EnqueueStep => AssignedId > issuedMax]_vars

\* C7 amended: between two resets each enqueue assigns the id one above the
\* last id assigned since the reset; reset_state deletes the counter, and the
\* first enqueue after it assigns 1 again.
C7_IncreasingBetweenResets ==
    [][ /\ EnqueueStep => AssignedId > epochMax /\ AssignedId = epochMax + 1
        /\ resets' # resets => next_chunk_id' = 0 /\ epochMax' = 0
      ]_vars

\* After a reset an id has been assigned that is below one assigned before it.
C7_Witness ==
    /\ resets >= 1
    /\ epochMax >= 1
    /\ epochMax < issuedMax

\* A line without the whitespace before its first and after its last character
\* that is not whitespace.
Trimmed(l) ==
    LET solid == {i \in 1..Len(l) : l[i] \notin Whitespace}
    IN  IF solid = {}
        THEN <<>>
        ELSE SubSeq(l, CHOOSE i \in solid : \A j \in solid : i <= j,
                       CHOOSE i \in solid : \A j \in solid : j <= i)

\* The non-empty trimmed lines of s from position i on, read character by
\* character; cur is the line read so far.
RECURSIVE TrimmedLinesFrom(_, _, _)
TrimmedLinesFrom(s, i, cur) ==
    IF i > Len(s)
    THEN IF Trimmed(cur) = <<>> THEN <<>> ELSE <<Trimmed(cur)>>
    ELSE IF s[i] = "\n"
    THEN (IF Trimmed(cur) = <<>> THEN <<>> ELSE <<Trimmed(cur)>>)
             \o TrimmedLinesFrom(s, i + 1, <<>>)
    ELSE TrimmedLinesFrom(s, i + 1, Append(cur, s[i]))

\* The entries the claim expects of replace(S, category).
ExpectedEntries(S, category) ==
    LET lines == TrimmedLinesFrom(S, 1, <<>>)
    IN  [k \in 1..Len(lines) |->
            [line |-> lines[k], kind |-> category,
             persona |-> DEFAULT_STREAMER_PERSONA]]

\* C8: after _replace_script(S, category), the entries popped so far followed
\* by the entries still queued are exactly the non-empty trimmed lines of S,
\* in order, each under the given category; nothing of the previous queue is
\* left, and a script without a non-empty line leaves the queue empty.
C8_ReplaceThenPop ==
    yielded \o script_queue = ExpectedEntries(plan.script, plan.kind)

\* Two lines of a script with whitespace to trim have been popped and the
\* queue is empty.
C8_Witness ==
    /\ Len(yielded) = 2
    /\ script_queue = <<>>
    /\ \E i \in 1..Len(plan.script) : plan.script[i] = " "

\* The non-empty lines of the built-in script, as entries under general.
DefaultEntries ==
    << [line |-> <<"[", "S", "]", " ", "a">>, kind |-> "general",
        persona |-> DEFAULT_STREAMER_PERSONA],
       [line |-> <<"[", "P", "]", " ", "b">>, kind |-> "general",
        persona |-> DEFAULT_STREAMER_PERSONA] >>

\* C9: the state reset_state leaves (run between ticks, no HTTP call in
\* progress): audio queue, interrupt queue, interrupt map and history empty,
\* the script queue holding the non-empty lines of the built-in script in
\* order under general.
C9_ResetState ==
    [][ resets' # resets =>
            /\ audio_queue' = <<>>
            /\ interrupts_queue' = <<>>
            /\ DOMAIN interrupts_data' = {}
            /\ history' = <<>>
            /\ script_queue' = DefaultEntries
      ]_vars

\* The state right after a reset that followed registrations and enqueues.
C9_Witness ==
    /\ resets >= 1
    /\ resetAt >= 1
    /\ issuedMax >= 1
    /\ epochMax = 0
    /\ audio_queue = <<>> /\ history = <<>>
    /\ interrupts_queue = <<>> /\ interrupts_data = <<>>
    /\ script_queue = DefaultEntries /\ yielded = <<>>

\* The chunk the step appended to the audio queue.
NewChunk == audio_queue'[Len(audio_queue')]

\* The step appended exactly one chunk to the audio queue.
OneChunkAppended ==
    /\ Len(audio_queue') = Len(audio_queue) + 1
    /\ SubSeq(audio_queue', 1, Len(audio_queue)) = audio_queue

\* Speaker and spoken text of the well-formed script lines of the model.
Spoken(line) ==
    CASE line = <<"[", "S", "]", " ", "a">> -> [speaker |-> <<"s">>, text |-> <<"a">>]
      [] line = <<"[", "P", "]", " ", "b">> -> [speaker |-> <<"p">>, text |-> <<"b">>]
      [] line = <<"[", "S", "]", " ", "c">> -> [speaker |-> <<"s">>, text |-> <<"c">>]
      [] line = <<"[", "P", "]", " ", "d">> -> [speaker |-> <<"p">>, text |-> <<"d">>]
      [] OTHER -> [speaker |-> <<>>, text |-> <<>>]

\* C10: the steps of a tick that handles a superchat registered with persona p
\* and message m.  The step that ends the TTS call appends exactly one chunk
\* (superchat, speaker p, transcript m) and no later step of the tick appends
\* another; the next step appends the history record of that chunk; the step
\* that ends the LLM call marks the interrupt processed and, when the LLM
\* output is non-empty, leaves in the script queue exactly the lines of that
\* output under general (otherwise the script queue is unchanged).  The ticks
\* that follow pop the queue from its head, and the chunk of a line tick
\* carries the speaker, text and category of the line it popped.
C10_SuperchatTick ==
    [][ LET id == tick.interrupt.interrupt_id
        IN  /\ (tick.pc = "sc_tts" /\ tick'.pc = "sc_hist") =>
                   /\ OneChunkAppended
                   /\ NewChunk.kind = "superchat"
                   /\ NewChunk.speaker = interrupts_data[id].persona
                   /\ NewChunk.transcript = interrupts_data[id].message
                   /\ NewChunk.chunk_id = tick'.chunk_id
                   /\ history' = history
            /\ tick.pc \in {"sc_hist", "sc_llm"} =>
                   Len(audio_queue') <= Len(audio_queue)
            /\ (tick.pc = "sc_hist" /\ tick'.pc = "sc_llm") =>
                   history' = Append(history,
                                     [persona |-> interrupts_data[id].persona,
                                      text |-> interrupts_data[id].message,
                                      kind |-> "superchat",
                                      chunk_id |-> tick.chunk_id])
            /\ (tick.pc = "sc_llm" /\ tick'.pc = "idle" /\ failures' = failures) =>
                   /\ interrupts_data'[id].status = "processed"
                   /\ history' = history
                   /\ IF answer' # <<>>
                      THEN /\ script_queue' = ExpectedEntries(answer', "general")
                           /\ yielded' = <<>>
                           /\ line_index' = 0
                      ELSE script_queue' = script_queue /\ yielded' = yielded
            /\ (tick.pc = "idle" /\ tick'.pc = "line_tts") =>
                   /\ script_queue # <<>>
                   /\ script_queue' = Tail(script_queue)
                   /\ tick'.persona = Spoken(Head(script_queue).line).speaker
                   /\ tick'.line = Spoken(Head(script_queue).line).text
                   /\ tick'.kind = Head(script_queue).kind
            /\ (tick.pc = "line_tts" /\ tick'.pc = "line_hist") =>
                   /\ OneChunkAppended
                   /\ NewChunk.kind = tick.kind
                   /\ NewChunk.speaker = tick.persona
                   /\ NewChunk.transcript = tick.line
      ]_vars

\* A superchat has been processed, the LLM output has replaced the script, and
\* both lines of the new script have been spoken: they are the last two
\* chunks of the queue, after the superchat's.
C10_Witness ==
    /\ \E i \in Stored :
           /\ interrupts_data[i].kind = SUPERCHAT
           /\ interrupts_data[i].status = "processed"
    /\ answer # <<>>
    /\ plan = [script |-> answer, kind |-> GENERAL]
    /\ Len(yielded) = 2
    /\ tick.pc = "idle"
    /\ Len(audio_queue) >= 3
    /\ LET n == Len(audio_queue)
       IN  /\ audio_queue[n - 2].kind = SUPERCHAT
           /\ audio_queue[n - 2].speaker = <<"T">>
           /\ audio_queue[n - 2].transcript = <<"y", "o">>
           /\ audio_queue[n - 1].transcript = <<"c">>
           /\ audio_queue[n - 1].speaker = <<"s">>
           /\ audio_queue[n].transcript = <<"d">>
           /\ audio_queue[n].speaker = <<"p">>
           /\ audio_queue[n].kind = GENERAL

\* C11: the steps of a tick that handles a gift.  Neither the step that pops
\* the gift nor the step that ends its LLM call changes the audio queue, the
\* chunk counter or the history; the step that ends the LLM call marks the
\* interrupt queued_script and, when the LLM output is non-empty, leaves in
\* the script queue exactly the lines of that output under gift.
C11_GiftTick ==
    [][ LET id == tick'.interrupt.interrupt_id
            gid == tick.interrupt.interrupt_id
        IN  /\ (tick.pc = "idle" /\ tick'.pc = "gift_llm") =>
                   /\ interrupts_data[id].kind = "gift"
                   /\ audio_queue' = audio_queue
                   /\ next_chunk_id' = next_chunk_id
                   /\ history' = history
            /\ (tick.pc = "gift_llm" /\ tick'.pc = "idle" /\ failures' = failures) =>
                   /\ audio_queue' = audio_queue
                   /\ next_chunk_id' = next_chunk_id
                   /\ history' = history
                   /\ produced'[gid] = produced[gid]
                   /\ interrupts_data'[gid].status = "queued_script"
                   /\ answer' # <<>> =>
                          /\ script_queue' = ExpectedEntries(answer', "gift")
                          /\ yielded' = <<>>
                          /\ line_index' = 0
      ]_vars

\* A gift has been handled on an untouched stream: its record is
\* queued_script, the two lines of the LLM output are queued under gift, and
\* there is neither a chunk nor a history record.
C11_Witness ==
    /\ \E i \in Stored :
           /\ interrupts_data[i].kind = GIFT
           /\ interrupts_data[i].status = "queued_script"
           /\ marks[i] = 1
    /\ tick.pc = "idle"
    /\ answer # <<>>
    /\ plan = [script |-> answer, kind |-> GIFT]
    /\ Len(script_queue) = 2
    /\ \A k \in 1..2 : script_queue[k].kind = GIFT
    /\ audio_queue = <<>> /\ history = <<>> /\ issuedMax = 0

\* The step in which a call made while handling an interrupt raises.
RaisedInHandling ==
    /\ failures' # failures
    /\ tick.interrupt # NoInterrupt

\* C12: when a step of handling a popped interrupt raises before the interrupt
\* is marked terminal, the id is appended to the tail of the interrupt queue,
\* the record keeps its created_at and gains a retry_at, every other record is
\* left alone and process_once returns nothing; and the requeued interrupt is
\* popped again by a later tick (unless reset_state clears the stores first).
C12_Requeue ==
    /\ [][ RaisedInHandling =>
               LET id == tick.interrupt.interrupt_id
               IN  /\ interrupts_data[id].status \notin Terminal
                   /\ interrupts_queue' = Append(interrupts_queue, id)
                   /\ DOMAIN interrupts_data' = DOMAIN interrupts_data
                   /\ interrupts_data'[id].created_at = interrupts_data[id].created_at
                   /\ interrupts_data'[id].retry_at
                   /\ \A j \in Stored \ {id} : interrupts_data'[j] = interrupts_data[j]
                   /\ ret' = "none"
                   /\ tick' = IdleTick
         ]_vars
    /\ \A i \in InterruptIds :
           (i \in Stored /\ InQueue(i) /\ interrupts_data[i].retry_at)
               ~> (tick.interrupt.interrupt_id = i \/ resetAt >= i)

\* The first interrupt failed and went to the tail behind the second; the
\* second has been popped since, and now the first is in hand again, its
\* record carrying the original created_at and the retry_at.
C12_Witness ==
    /\ failures = 1
    /\ registered = 2
    /\ 2 \in popped
    /\ tick.interrupt.interrupt_id = 1
    /\ 1 \in Stored
    /\ interrupts_data[1].retry_at
    /\ interrupts_data[1].created_at = 1
    /\ interrupts_data[1].status = "processing"

\* A superchat whose handling failed, was requeued, and has since been handled
\* to the end.
RetriedSuperchat(i) ==
    /\ i \in Stored
    /\ interrupts_data[i].kind = SUPERCHAT
    /\ interrupts_data[i].retry_at
    /\ interrupts_data[i].status = "processed"

\* C13 as stated: whichever step of the handling failed, the superchat that
\* was requeued and then handled successfully has one chunk and one history
\* record in total.
C13_Original ==
    \A i \in InterruptIds :
        RetriedSuperchat(i) => produced[i] = 1 /\ recorded[i] = 1

\* C13 as amended: when every failure of the handling was a failure of the
\* synthesis call (before the chunk was enqueued), the superchat that was
\* requeued and then handled successfully has exactly one chunk and one
\* history record in total.
C13_RetriedOnce ==
    \A i \in InterruptIds :
        (RetriedSuperchat(i) /\ failed_in[i] \subseteq {"sc_tts"}) =>
            produced[i] = 1 /\ recorded[i] = 1

\* The synthesis of a superchat raised, the superchat was requeued and a later
\* tick handled it to the end.
C13_Witness ==
    \E i \in InterruptIds :
        /\ RetriedSuperchat(i)
        /\ failed_in[i] = {"sc_tts"}
        /\ marks[i] = 1
        /\ produced[i] = 1
        /\ recorded[i] = 1
        /\ tick.pc = "idle"

\* C14: when the LLM call of a superchat raises (the chunk of the superchat is
\* already enqueued), the script queue is left as it was, the interrupt is
\* marked processed and its id is not put back on the interrupt queue.
C14_LlmFailureProceeds ==
    [][ (failures' # failures /\ tick.pc = "sc_llm") =>
            LET id == tick.interrupt.interrupt_id
            IN  /\ produced[id] >= 1
                /\ script_queue' = script_queue
                /\ line_index' = line_index
                /\ interrupts_data'[id].status = "processed"
                /\ interrupts_queue' = interrupts_queue
      ]_vars

\* C15: the step that ends the LLM call of an interrupt with an empty answer
\* leaves the script queue and line_index exactly as they were and marks the
\* interrupt terminal: processed for a superchat, queued_script for a gift.
C15_EmptyAnswer ==
    [][ (/\ tick.pc \in {"sc_llm", "gift_llm"}
         /\ tick'.pc = "idle"
         /\ failures' = failures
         /\ answer' = <<>>) =>
            LET id == tick.interrupt.interrupt_id
            IN  /\ script_queue' = script_queue
                /\ line_index' = line_index
                /\ interrupts_data'[id].status =
                       IF tick.interrupt.kind = SUPERCHAT THEN "processed"
                       ELSE "queued_script"
      ]_vars

\* After a reset one line of the built-in script was spoken; then the only
\* interrupt registered was handled and the LLM answered with the empty
\* string: the second line is still queued and line_index is still 1.
C15_Witness ==
    /\ registered = 1 /\ resetAt = 0
    /\ 1 \in Stored
    /\ marks[1] = 1
    /\ interrupts_data[1].status \in Terminal
    /\ answer = <<>>
    /\ tick.pc = "idle"
    /\ line_index = 1
    /\ Len(script_queue) = 1
    /\ plan = [script |-> DEFAULT_SCRIPT, kind |-> GENERAL]

\* Every id in the interrupt queue has a record in the keyed map.
QueuedHaveRecords ==
    \A k \in 1..Len(interrupts_queue) : interrupts_queue[k] \in Stored

\* C16 as stated: in every reachable state every queued id has a record, and
\* every record whose id is not in the queue is processed or queued_script.
C16_Original ==
    /\ QueuedHaveRecords
    /\ \A i \in Stored :
           ~InQueue(i) => interrupts_data[i].status \in Terminal

\* C16 as amended: between the operations of the interrupt store, every queued
\* id has a record, and every record whose id is not in the queue is either
\* terminal or the record the processor has popped and is handling, whose
\* status is processing.
C16_QueueRecords ==
    /\ QueuedHaveRecords
    /\ \A i \in Stored :
           ~InQueue(i) =>
               \/ interrupts_data[i].status \in Terminal
               \/ /\ tick.interrupt.interrupt_id = i
                  /\ interrupts_data[i].status = "processing"

\* The first interrupt failed and waits in the queue again; the second has
\* been popped and is being handled: its record is outside the queue with
\* status processing.
C16_Witness ==
    /\ interrupts_queue = <<1>>
    /\ 1 \in Stored /\ 2 \in Stored
    /\ interrupts_data[1].retry_at
    /\ tick.interrupt.interrupt_id = 2
    /\ interrupts_data[2].status = "processing"

\* The step in which a synthesis call raises.
SynthesisRaises ==
    /\ failures' # failures
    /\ tick.pc \in {"sc_tts", "line_tts"}

\* C17: a history record is appended only after its chunk was enqueued.  The
\* chunk ids appended to the audio queue since the last reset are exactly
\* 1..next_chunk_id (each enqueue appends the chunk that carries the new
\* counter value), every history record carries one of them, the step that
\* appends a history record appends the record of a chunk enqueued by an
\* earlier step, and a synthesis call that raises leaves the audio queue, the
\* counter and the history as they were.
C17_HistoryAfterEnqueue ==
    /\ [](\A k \in 1..Len(history) :
              ToInt(history[k].chunk_id) \in 1..next_chunk_id)
    /\ [][ Len(audio_queue') > Len(audio_queue) =>
               /\ OneChunkAppended
               /\ next_chunk_id' = next_chunk_id + 1
               /\ NewChunk.chunk_id = ToStr(next_chunk_id')
               /\ history' = history
         ]_vars
    /\ [][ Len(history') > Len(history) =>
               /\ Len(history') = Len(history) + 1
               /\ SubSeq(history', 1, Len(history)) = history
               /\ ToInt(history'[Len(history')].chunk_id) \in unrecorded
               /\ audio_queue' = audio_queue
         ]_vars
    /\ [][ SynthesisRaises =>
               /\ audio_queue' = audio_queue
               /\ next_chunk_id' = next_chunk_id
               /\ history' = history
         ]_vars

\* A script line was spoken (one chunk, one history record with the chunk's
\* id); then the synthesis of a superchat raised and left nothing behind.
C17_Witness ==
    /\ failures = 1
    /\ \E i \in InterruptIds :
           failed_in[i] = {"sc_tts"} /\ produced[i] = 0 /\ recorded[i] = 0
    /\ Len(audio_queue) = 1
    /\ Len(history) = 1
    /\ history[1].chunk_id = audio_queue[1].chunk_id
    /\ history[1].kind = GENERAL
    /\ next_chunk_id = 1

\* A stored record that validation should have kept out.
Inadmissible(rec) ==
    \/ rec.kind \notin {"superchat", "gift"}
    \/ /\ rec.kind = "superchat"
       /\ \/ rec.message \in {<<>>, NoneStr}
          \/ rec.persona \in {<<>>, NoneStr}

\* C18: no record of kind general and no superchat record without a message
\* or without a persona is ever in the interrupt map or named by the queue; a
\* request that is accepted gets an id no record and no queue position holds,
\* its record is stored with status queued next to the untouched others, and
\* the id is appended to the queue tail.
C18_RegisterValidated ==
    /\ [](\A i \in Stored : ~Inadmissible(interrupts_data[i]))
    /\ [][ registered' # registered =>
               LET id == registered'
               IN  /\ id \notin Stored
                   /\ ~InQueue(id)
                   /\ id \notin popped
                   /\ interrupts_queue' = Append(interrupts_queue, id)
                   /\ DOMAIN interrupts_data' = Stored \cup {id}
                   /\ interrupts_data'[id].status = "queued"
                   /\ interrupts_data'[id].interrupt_id = id
                   /\ ~Inadmissible(interrupts_data'[id])
                   /\ \A j \in Stored : interrupts_data'[j] = interrupts_data[j]
         ]_vars
    /\ [][ DOMAIN interrupts_data' \ Stored # {} => registered' # registered ]_vars

\* A gift without persona and message and a superchat with both were
\* accepted: both records are queued and their ids are in the queue in the
\* order of arrival.
C18_Witness ==
    /\ interrupts_queue = <<1, 2>>
    /\ Stored = {1, 2}
    /\ interrupts_data[1].kind = GIFT
    /\ interrupts_data[1].persona = NoneStr
    /\ interrupts_data[1].status = "queued"
    /\ interrupts_data[2].kind = SUPERCHAT
    /\ interrupts_data[2].message = <<"y", "o">>
    /\ interrupts_data[2].status = "queued"

\* Caller d is not inside fetch_audio_chunks and no chunk was enqueued since
\* its last call began.
Quiet(d) == drain[d].pc = "idle" /\ ~overlapped[d]

\* C19: fetch_audio_chunks removes what it returns.  A call during which no
\* chunk is enqueued returns the chunks that were pending when it began, in
\* insertion order (the queue's order, chunk ids increasing), and leaves the
\* audio queue empty; as long as nothing is enqueued afterwards,
\* count_audio_chunks returns 0 and another call returns the empty list.
\* count_audio_chunks returns the queue length and changes nothing.
C19_DestructiveDrain ==
    /\ [](\A d \in Drainers :
              /\ IncreasingIds(fetched[d])
              /\ Quiet(d) => audio_queue = <<>> /\ fetched[d] = pending[d])
    /\ [][ \A d \in Drainers :
               (Quiet(d) /\ <<pending[d], fetched[d]>>' # <<pending[d], fetched[d]>>) =>
                   /\ fetched'[d] = <<>>
                   /\ Quiet(d)'
                   /\ audio_queue' = <<>>
         ]_vars
    /\ [][ counted' # counted =>
               /\ counted'.result = Len(audio_queue)
               /\ (\E d \in Drainers : Quiet(d)) => counted'.result = 0
               /\ audio_queue' = audio_queue
               /\ next_chunk_id' = next_chunk_id
               /\ drain' = drain
         ]_vars

\* One call has returned three chunks of different kinds in the order in
\* which they were enqueued, the queue is empty and a count has returned 0.
C19_Witness ==
    \E d \in Drainers :
        /\ Quiet(d)
        /\ audio_queue = <<>>
        /\ Len(fetched[d]) = 3
        /\ fetched[d] = pending[d]
        /\ fetched[d][1].kind = GENERAL
        /\ fetched[d][2].kind = SUPERCHAT
        /\ fetched[d][3].kind = GIFT
        /\ counted = [flip |-> TRUE, result |-> 0]

\* The line has a leading [Speaker] tag: it opens with "[", and a "]" closes
\* the tag before any other "[".
Tagged(l) ==
    /\ l # <<>>
    /\ l[1] = "["
    /\ \E i \in 2..Len(l) :
           /\ l[i] = "]"
           /\ \A j \in 2..(i - 1) : l[j] \notin {"[", "]"}

\* The position of the "]" that closes the leading tag.
FirstClose(l) ==
    CHOOSE i \in 1..Len(l) : l[i] = "]" /\ \A j \in 1..(i - 1) : l[j] # "]"

\* The name inside the leading tag, as a persona key (trimmed, lower case).
TagOf(l) == Lower(Trimmed(SubSeq(l, 2, FirstClose(l) - 1)))

\* The whole line minus its leading tag, trimmed.
RestOf(l) == Trimmed(SubSeq(l, FirstClose(l) + 1, Len(l)))

\* C20: with no interrupt pending, the tick that pops a line with a leading
\* [Speaker] tag takes the head entry of the script queue (so lines are spoken
\* in queue order) and enqueues exactly one chunk whose speaker is the name in
\* the tag (as a persona key), whose transcript is the whole line minus the
\* tag, and whose kind is the entry's category.
C20_LineTick ==
    [][ /\ (tick.pc = "idle" /\ tick'.pc = "line_tts") =>
               /\ interrupts_queue = <<>>
               /\ script_queue # <<>>
               /\ script_queue' = Tail(script_queue)
               /\ Tagged(Head(script_queue).line) =>
                      /\ tick'.persona = TagOf(Head(script_queue).line)
                      /\ tick'.line = RestOf(Head(script_queue).line)
                      /\ tick'.kind = Head(script_queue).kind
        /\ (tick.pc = "line_tts" /\ tick'.pc = "line_hist") =>
               /\ OneChunkAppended
               /\ NewChunk.kind = tick.kind
               /\ NewChunk.speaker = tick.persona
               /\ NewChunk.transcript = tick.line
      ]_vars

\* C21: while a tick is speaking a script line, no interrupt is popped and no
\* chunk is produced for one, whatever is registered meanwhile.  The tick goes
\* on as it would alone: the end of the synthesis appends the line's chunk,
\* the next step appends its history record (unless a call raises, which ends
\* the tick); and the tick that starts afterwards on a non-empty interrupt
\* queue takes the interrupt at its head.
C21_LineNotPreempted ==
    /\ [][ tick.pc \in LineStages =>
               /\ popped' = popped
               /\ produced' = produced
               /\ \A k \in 1..Len(interrupts_queue) :
                      /\ produced[interrupts_queue[k]] = 0
                      /\ interrupts_queue[k] \notin popped
               /\ tick' # tick =>
                      \/ /\ tick.pc = "line_tts" /\ tick'.pc = "line_hist"
                         /\ OneChunkAppended
                         /\ NewChunk.transcript = tick.line
                         /\ NewChunk.speaker = tick.persona
                         /\ NewChunk.chunk_id = tick'.chunk_id
                         /\ tick'.line = tick.line
                         /\ history' = history
                      \/ /\ tick.pc = "line_hist" /\ tick'.pc = "idle"
                         /\ failures' = failures
                         /\ Len(history') = Len(history) + 1
                         /\ history'[Len(history')].chunk_id = tick.chunk_id
                         /\ history'[Len(history')].text = tick.line
                         /\ Len(audio_queue') <= Len(audio_queue)
                      \/ /\ failures' # failures
                         /\ tick' = IdleTick
         ]_vars
    /\ [][ (tick.pc = "idle" /\ tick' # tick /\ interrupts_queue # <<>>) =>
               /\ tick'.interrupt.interrupt_id = Head(interrupts_queue)
               /\ tick'.pc \in {"sc_tts", "gift_llm"}
         ]_vars

\* A superchat was registered while the tick was speaking a line: it waits in
\* the interrupt queue, untouched, and the line's chunk has been appended.
C21_Witness ==
    /\ tick.pc = "line_hist"
    /\ interrupts_queue = <<1>>
    /\ interrupts_data[1].kind = SUPERCHAT
    /\ interrupts_data[1].status = "queued"
    /\ produced[1] = 0
    /\ Len(audio_queue) = 1
    /\ audio_queue[1].chunk_id = tick.chunk_id
    /\ audio_queue[1].transcript = tick.line
    /\ history = <<>>

\* C22: the tick that starts on a non-empty interrupt queue removes the head
\* id.  When the id has no record, the map is left as it is, nothing is
\* returned to process_once, and the tick goes on as a tick without interrupt
\* (it pops the next script entry when there is one); later ticks pop the
\* ids that follow.  Otherwise the record's status becomes processing, its started_at
\* is set, nothing else in the map changes, and process_once receives the
\* record.
C22_PopNext ==
    [][ (tick.pc = "idle" /\ interrupts_queue # <<>> /\ WorkerStep) =>
            LET h == Head(interrupts_queue)
            IN  /\ interrupts_queue' = Tail(interrupts_queue)
                /\ IF h \notin Stored
                   THEN /\ interrupts_data' = interrupts_data
                        /\ tick'.interrupt = NoInterrupt
                        /\ popped' = popped
                        /\ script_queue # <<>> =>
                               /\ script_queue' = Tail(script_queue)
                               /\ yielded' = Append(yielded, Head(script_queue))
                   ELSE /\ DOMAIN interrupts_data' = Stored
                        /\ interrupts_data' =
                               [interrupts_data EXCEPT ![h].status = "processing",
                                                       ![h].started_at = TRUE]
                        /\ tick'.interrupt =
                               [interrupt_id |-> h,
                                kind |-> interrupts_data[h].kind,
                                persona |-> interrupts_data[h].persona,
                                message |-> interrupts_data[h].message,
                                created_at |-> interrupts_data[h].created_at,
                                status |-> "processing"]
                        /\ script_queue' = script_queue
      ]_vars

\* The list was <<2, 1>> and only id 1 had a record: the orphan 2 was dropped
\* by a tick that spoke a script line, and the next tick popped 1, whose
\* record is now processing.
C22_Witness ==
    /\ interrupts_queue = <<>>
    /\ Stored = {1}
    /\ popped = {1}
    /\ tick.interrupt.interrupt_id = 1
    /\ interrupts_data[1].status = "processing"
    /\ interrupts_data[1].started_at
    /\ Len(yielded) = 1
    /\ Len(audio_queue) = 1
    /\ produced[1] = 0

\* A step that replaces the script: reset_state, or the tick of a superchat or
\* gift whose LLM answer is truthy.
ReplacesScript ==
    \/ resets' # resets
    \/ /\ tick.pc \in {"sc_llm", "gift_llm"}
       /\ tick'.pc = "idle"
       /\ failures' = failures
       /\ Truthy(answer')

\* A step in which a tick finishes speaking a script line.
SpeaksLine == tick.pc = "line_hist" /\ tick'.pc = "idle" /\ failures' = failures

\* C23: line_index is 0 after every step that replaces the script (reset_state
\* included), is one more after the step in which a tick finishes speaking a
\* script line, and is left unchanged by every other step, those of a tick
\* that handles an interrupt without replacing the script among them.
C23_LineIndex ==
    [][ /\ ReplacesScript => line_index' = 0
        /\ SpeaksLine => line_index' = line_index + 1 /\ ret' = "line"
        /\ (~ReplacesScript /\ ~SpeaksLine) => line_index' = line_index
      ]_vars

\* A line of the default script was spoken, a superchat then replaced the
\* script, and the first line of the new script has been spoken: the index
\* counts from the replacement.
C23_Witness ==
    /\ line_index = 1
    /\ marks[1] = 1
    /\ Truthy(answer)
    /\ plan.script = answer
    /\ Len(yielded) = 1
    /\ Len(history) = 3
    /\ history[1].kind = GENERAL
    /\ history[2].kind = SUPERCHAT
    /\ history[3].kind = GENERAL
    /\ tick.pc = "idle"

\* C24: a tick that starts with the interrupt queue and the script queue both
\* empty returns None and leaves the audio queue, the chunk counter, the
\* history, the interrupt list and map, the script queue and line_index as
\* they were; the worker is idle again after it.
C24_EmptyTick ==
    [][ (tick.pc = "idle" /\ interrupts_queue = <<>> /\ script_queue = <<>>
             /\ WorkerStep) =>
            /\ ret' = "none"
            /\ tick' = IdleTick
            /\ audio_queue' = audio_queue
            /\ next_chunk_id' = next_chunk_id
            /\ history' = history
            /\ interrupts_queue' = interrupts_queue
            /\ interrupts_data' = interrupts_data
            /\ script_queue' = script_queue
            /\ line_index' = line_index
            /\ failures' = failures
      ]_vars

\* The script has been spoken to its end, nothing is waiting, and the last
\* tick returned None without any call having raised: it was a tick on two
\* empty queues, and what the earlier ticks produced is still there.
C24_Witness ==
    /\ tick.pc = "idle"
    /\ ret = "none"
    /\ failures = 0
    /\ interrupts_queue = <<>>
    /\ script_queue = <<>>
    /\ line_index = 2
    /\ Len(history) = 2
    /\ Len(audio_queue) = 2
    /\ next_chunk_id = 2

\* C25: at most one process_once call is in flight; a call is started only
\* when none is in flight and shutdown has not been signalled; a call that
\* raises while run_processor waits for it leaves run_processor alive, in
\* its one-second sleep, and from there run_processor starts the next call
\* unless shutdown is signalled first; once shutdown is signalled
\* run_processor exits.
C25_DriverSurvives ==
    /\ [](in_flight <= 1)
    /\ [][ in_flight' > in_flight => in_flight = 0 /\ ~stop_event ]_vars
    /\ [][ (outcomes' = Append(outcomes, "raised") /\ ~stop_event) =>
               worker_task'.pc = "sleep_err" ]_vars
    /\ [][ stop_event => stop_event' ]_vars
    /\ (worker_task.pc = "sleep_err" /\ Len(outcomes) < MaxTicks)
           ~> (in_flight = 1 \/ stop_event)
    /\ stop_event ~> (worker_task.pc \in Exited)

\* The first call raised, the second was started and returned, then shutdown
\* was signalled and run_processor has exited.
C25_Witness ==
    /\ outcomes = <<"raised", "returned">>
    /\ stop_event
    /\ worker_task.pc \in Exited
    /\ in_flight = 0

\* C26: an attempt of a TTS request that raises and is retried leaves the
\* audio queue, the chunk counter and the history as they were; when the
\* request then succeeds the tick enqueues one chunk, which carries the audio
\* the successful call returned, and appends one history record for that
\* chunk: after the tick the line has one chunk and one record however many
\* attempts failed.
C26_RetriedRequest ==
    /\ [][ tts_attempts' # tts_attempts =>
               /\ audio_queue' = audio_queue
               /\ next_chunk_id' = next_chunk_id
               /\ history' = history
               /\ tick' = tick ]_vars
    /\ [][ (tick.pc = "line_tts" /\ tick'.pc = "line_hist") =>
               /\ OneChunkAppended
               /\ NewChunk.audio_base64 =
                      generate_audio(tick.persona, tick.line, TRUE, line_index).audio
               /\ NewChunk.transcript = tick.line
               /\ history' = history ]_vars
    /\ [][ (tick.pc = "line_hist" /\ tick'.pc = "idle") =>
               /\ audio_queue' = audio_queue
               /\ history' = Append(history, history'[Len(history')])
               /\ history'[Len(history')].chunk_id = tick.chunk_id ]_vars
    /\ [](tick.pc = "idle" =>
              /\ Len(history) = line_index
              /\ Len(audio_queue) = line_index)
    /\ [](tick.pc = "line_tts" =>
              Len(history) = line_index /\ Len(audio_queue) = line_index)

\* The TTS request of the first line failed twice and then succeeded: one
\* chunk, with the audio synthesized for the line, and one history record.
C26_Witness ==
    /\ tts_attempts = 2
    /\ tick.pc = "idle"
    /\ line_index = 1
    /\ Len(audio_queue) = 1
    /\ audio_queue[1].audio_base64.src = "tts"
    /\ audio_queue[1].audio_base64.text = audio_queue[1].transcript
    /\ Len(history) = 1
    /\ history[1].chunk_id = audio_queue[1].chunk_id

\* The words of the two texts of the aget_valid_score call.
TranscribedWords == SplitWords(norm(score.transcription))
RequestedWords == SplitWords(norm(score.reference_transcript))

\* The cost behind a returned score num/den = 1 - cost/den.
ScoreCost == score.result.den - score.result.num

\* C29 as stated: every returned Valid-Score lies in [0,1].
C29_Original ==
    score.pc = "returned" =>
        /\ 0 <= score.result.num
        /\ score.result.num <= score.result.den

\* C29, amended: a returned Valid-Score is at most 1; the edit cost is at
\* least 0 and at most the larger of the two word counts; the score is at
\* least 0 whenever the other text has no more words than the text whose word
\* count divides the cost (here the transcription), and whenever both texts
\* are empty.
C29_ScoreRange ==
    score.pc = "returned" =>
        /\ score.result.den >= 1
        /\ score.result.den = IF Len(TranscribedWords) > 1
                              THEN Len(TranscribedWords) ELSE 1
        /\ score.result.num <= score.result.den
        /\ ScoreCost >= 0
        /\ ScoreCost <= IF Len(TranscribedWords) > Len(RequestedWords)
                        THEN Len(TranscribedWords) ELSE Len(RequestedWords)
        /\ Len(RequestedWords) <= score.result.den => score.result.num >= 0

\* The transcription is empty and the requested text has two words: the cost
\* 2 is divided by 1 and the score is -1.
C29_Witness ==
    /\ score.pc = "returned"
    /\ TranscribedWords = <<>>
    /\ Len(RequestedWords) = 2
    /\ score.result = [num |-> -1, den |-> 1]

\* The standard word-level edit distance: insertion, deletion and
\* substitution each cost 1.
RECURSIVE EditDistance(_, _)
EditDistance(a, b) ==
    IF a = <<>> THEN Len(b)
    ELSE IF b = <<>> THEN Len(a)
    ELSE LET ins == EditDistance(a, Tail(b)) + 1
             del == EditDistance(Tail(a), b) + 1
             sub == EditDistance(Tail(a), Tail(b))
                        + (IF Head(a) = Head(b) THEN 0 ELSE 1)
             least == IF ins <= del THEN ins ELSE del
         IN  IF sub <= least THEN sub ELSE least

\* C30: a returned Valid-Score equals 1 - cost/max(1, |ref|), where cost is
\* the standard edit distance between the words of the normalized
\* transcription and those of the normalized requested text and |ref| is the
\* number of words of the requested text; texts with the same words score
\* exactly 1.
C30_ScoreFormula ==
    score.pc = "returned" =>
        LET cost == EditDistance(TranscribedWords, RequestedWords)
            ref == IF Len(RequestedWords) > 1 THEN Len(RequestedWords) ELSE 1
        IN  /\ score.result.num * ref = (ref - cost) * score.result.den
            /\ TranscribedWords = RequestedWords =>
                   score.result.num = score.result.den

\* What the code computes: the same cost, divided by the number of words of
\* the transcription.
ScoreDividesByTranscription ==
    score.pc = "returned" =>
        LET cost == EditDistance(TranscribedWords, RequestedWords)
            hyp == IF Len(TranscribedWords) > 1 THEN Len(TranscribedWords) ELSE 1
        IN  /\ score.result.num * hyp = (hyp - cost) * score.result.den
            /\ TranscribedWords = RequestedWords =>
                   score.result.num = score.result.den

Chooses == sample.pc = "gather" /\ sample'.pc = "returned"

\* The choice C28 describes: made once every request has returned; the
\* candidate of the greatest Valid-Score when valid_sampling is set, else the
\* first candidate.
ChoiceAsStated ==
    /\ Chooses =>
           /\ sample.returned = 1..sample.issued
           /\ sample'.audio_b64s = [i \in 1..sample.issued |-> i]
           /\ sample'.audio_b64 \in 1..sample.issued
           /\ IF sample.valid_sampling.given
              THEN /\ Len(sample'.scores) = sample.issued
                   /\ \A j \in 1..sample.issued :
                          AtLeast(sample'.scores[sample'.audio_b64], sample'.scores[j])
              ELSE sample'.audio_b64 = sample'.audio_b64s[1]
    /\ (sample.pc = "gather" /\ sample'.pc = "gather") =>
           /\ sample'.issued = sample.issued
           /\ sample.returned \subseteq sample'.returned

\* C28 as stated: with n given exactly n requests are issued, and the call
\* ends by the choice described.
C28_Original ==
    [][ /\ (sample.pc = "called" /\ sample' # sample /\ sample.n.given) =>
               /\ sample'.pc = "gather"
               /\ sample'.issued = sample.n.count
        /\ ChoiceAsStated
        /\ (sample.pc = "gather" /\ sample.n.given) => sample'.pc # "raised"
      ]_vars

\* C28, amended: with n given, valid_sampling requests are issued when
\* valid_sampling is a count other than 0, and n requests otherwise; the
\* choice is made once all of them have returned, and is the candidate of the
\* greatest Valid-Score (the first such) when valid_sampling is set, else the
\* first candidate; with no request issued the call raises.
C28_BestOfN ==
    [][ /\ (sample.pc = "called" /\ sample' # sample /\ sample.n.given) =>
               /\ sample'.pc = "gather"
               /\ sample'.issued =
                      IF sample.valid_sampling.given /\ sample.valid_sampling.count # 0
                      THEN sample.valid_sampling.count
                      ELSE sample.n.count
        /\ ChoiceAsStated
        /\ (Chooses /\ sample.valid_sampling.given) =>
               \A j \in 1..(sample'.audio_b64 - 1) :
                   ~AtLeast(sample'.scores[j], sample'.scores[sample'.audio_b64])
        /\ (sample.pc = "gather" /\ sample'.pc = "raised") => sample.issued = 0
        /\ (sample.pc = "gather" /\ sample' # sample /\ sample.issued = 0) =>
               sample'.pc = "raised"
      ]_vars

\* n = 3 and valid_sampling = 2: two requests were issued, both returned, and
\* the second candidate, whose score is greater, was returned.
C28_Witness ==
    /\ sample.pc = "returned"
    /\ sample.n = [given |-> TRUE, count |-> 3]
    /\ sample.valid_sampling = [given |-> TRUE, count |-> 2]
    /\ sample.issued = 2
    /\ sample.returned = {1, 2}
    /\ sample.scores = << [num |-> 0, den |-> 1], [num |-> 2, den |-> 2] >>
    /\ sample.audio_b64 = 2

\* The best file the call of agenerate_audio_with_persona looks for exists.
BestFileExists ==
    /\ sample.line_index.given
    /\ \E key \in PERSONA_REFERENCES :
           /\ key = (IF ReplaceSpaces(Lower(sample.persona)) \in PERSONA_REFERENCES
                     THEN ReplaceSpaces(Lower(sample.persona))
                     ELSE DEFAULT_STREAMER_PERSONA)
           /\ <<key, sample.line_index.count>> \in BestFiles

\* The call has ended, by returning or by raising.
GenEnded == sample.pc \in {"returned", "raised"}

QueuedOnce(queue) ==
    \A j, k \in 1..Len(queue) : queue[j] = queue[k] => j = k

TerminalNow(data, queue, i) ==
    /\ i \in DOMAIN data
    /\ data[i].status \in Terminal
    /\ \A k \in 1..Len(queue) : queue[k] # i

C32_TerminalStays ==
    [][ /\ QueuedOnce(interrupts_queue')
        /\ resets' = resets =>
               \A i \in Stored :
                   interrupts_data[i].status \in Terminal =>
                       /\ TerminalNow(interrupts_data, interrupts_queue, i)
                       /\ TerminalNow(interrupts_data', interrupts_queue', i)
                       /\ interrupts_data'[i].status = interrupts_data[i].status
      ]_vars

\* A superchat that failed once and was requeued is now processed, while a
\* later interrupt waits in the queue.
C32_Witness ==
    \E i \in Stored :
        /\ interrupts_data[i].status = "processed"
        /\ failed_in[i] # {}
        /\ Len(interrupts_queue) >= 1
        /\ QueuedOnce(interrupts_queue)


(***************************************************************************)
(* C33: over all the handling attempts of a superchat, requeues after a    *)
(* failure included, at most one audio chunk and at most one history       *)
(* record are produced for it.                                             *)
(***************************************************************************)
\* C33 as stated: whichever step failed.
C33_Original ==
    \A i \in InterruptIds : produced[i] <= 1 /\ recorded[i] <= 1

\* C33 as amended: at most one chunk when every failure happened before the
\* chunk was enqueued, at most one history record when every failure happened
\* before the record was appended.
C33_AtMostOnce ==
    \A i \in InterruptIds :
        /\ failed_in[i] \subseteq {"sc_tts"} => produced[i] <= 1
        /\ failed_in[i] \subseteq {"sc_tts", "sc_hist"} => recorded[i] <= 1

\* A superchat whose history append raised was requeued and handled again: it
\* has two chunks and one history record.
C33_Witness ==
    \E i \in InterruptIds :
        /\ failed_in[i] = {"sc_hist"}
        /\ produced[i] = 2
        /\ recorded[i] = 1
        /\ i \in Stored
        /\ interrupts_data[i].status = "processed"


(***************************************************************************)
(* C34: a script line is never lost.  When the tick that popped a line     *)
(* raises before the line's chunk is enqueued (the line has no [Speaker]   *)
(* tag, or the synthesis fails), the entry is put back: after the step     *)
(* that ends the tick the entry is at the head of the script queue again,  *)
(* to be spoken by a later tick.                                           *)
(***************************************************************************)
\* The step pops a line and ends the tick with the parse error.
LineParseRaises ==
    /\ tick.pc = "idle"
    /\ tick'.pc = "idle"
    /\ yielded' = Append(yielded, Head(script_queue))
    /\ ret' = "raised"

\* The step ends a line tick in the synthesis call with an exception.
LineSynthesisRaises ==
    /\ tick.pc = "line_tts"
    /\ tick'.pc = "idle"
    /\ failures' # failures

C34_LineNeverLost ==
    [][ /\ (script_queue # <<>> /\ LineParseRaises) =>
               /\ script_queue' # <<>>
               /\ Head(script_queue') = Head(script_queue)
        /\ LineSynthesisRaises =>
               /\ script_queue' # <<>>
               /\ Head(script_queue') = yielded[Len(yielded)]
      ]_vars

\* A tick that popped a line raised, and the line is neither in the script
\* queue nor in any chunk ever enqueued.
C34_LineLost ==
    /\ tick.pc = "idle"
    /\ ret = "raised"
    /\ yielded # <<>>
    /\ script_queue = <<>>
    /\ line_index < Len(yielded)


C35_Starved ==
    /\ tick.pc = "idle"
    /\ script_queue = replace_script(DEFAULT_SCRIPT, GENERAL).queue
    /\ \E i \in Stored :
           /\ interrupts_data[i].persona = NoneStr
           /\ interrupts_data[i].kind = SUPERCHAT
           /\ interrupts_data[i].retry_at
           /\ InQueue(i)


(***************************************************************************)
(* C36: with two drain calls running concurrently with each other and with *)
(* enqueues, every enqueued chunk is returned to exactly one caller, none  *)
(* lost and none duplicated, and each caller's list is in increasing       *)
(* chunk_id order.                                                         *)
(***************************************************************************)
\* The chunk ids caller d has been handed: by its finished calls and by the
\* call it is in.
HandedTo(d) ==
    delivered[d] \o (IF drain[d].pc = "idle" THEN <<>> ELSE ChunkIds(drain[d].chunks))

\* How often chunk id c occurs in a list of ids.
Occurrences(ids, c) == Cardinality({ k \in 1..Len(ids) : ids[k] = c })

C36_ExactlyOneCaller ==
    /\ \A c \in 1..next_chunk_id :
           Occurrences(ChunkIds(audio_queue), c)
             + Occurrences(HandedTo("d1"), c)
             + Occurrences(HandedTo("d2"), c) = 1
    /\ \A d \in DrainCallers :
           /\ IncreasingIds(fetched[d])
           /\ IncreasingIds(drain[d].chunks)
    /\ (audio_queue = <<>> /\ \A d \in DrainCallers : drain[d].pc = "idle") =>
           \A c \in 1..next_chunk_id :
               \E d \in DrainCallers :
                   /\ Occurrences(delivered[d], c) = 1
                   /\ \A o \in DrainCallers \ {d} : Occurrences(delivered[o], c) = 0

\* Three chunks were enqueued while both callers were draining: one call
\* returned chunks 1 and 3, the other chunk 2.
C36_Witness ==
    /\ next_chunk_id = 3
    /\ audio_queue = <<>>
    /\ \A d \in DrainCallers : drain[d].pc = "idle"
    /\ fetched["d1"] # <<>>
    /\ ChunkIds(fetched["d1"]) = <<1, 3>>
    /\ ChunkIds(fetched["d2"]) = <<2>>
    /\ delivered["d1"] = <<1, 3>>
    /\ delivered["d2"] = <<2>>


(***************************************************************************)
(* C37: handling an interrupt replaces the script queue only when the LLM  *)
(* output has at least one non-blank line.  The step that ends the LLM     *)
(* call with an answer made only of whitespace or blank lines leaves the   *)
(* script queue as it was, as the empty answer does.                       *)
(***************************************************************************)
\* The step ends the LLM call of an interrupt with an answer.
LlmAnswers ==
    /\ tick.pc \in {"sc_llm", "gift_llm"}
    /\ tick'.pc = "idle"
    /\ failures' = failures

C37_BlankAnswer ==
    [][ (LlmAnswers /\ ScriptLines(answer') = <<>>) => script_queue' = script_queue
      ]_vars

\* A whitespace-only answer has emptied a script queue that held lines.
C37_QueueCleared ==
    /\ tick.pc = "idle"
    /\ answer = <<" ", "\n">>
    /\ plan.script = answer
    /\ script_queue = <<>>
    /\ yielded = <<>>
    /\ resets = 1


(***************************************************************************)
(* C38: every interrupt whose id is in the interrupt queue has the stored  *)
(* status queued, also after a requeue, and the status processing is held  *)
(* only by the interrupt the tick in progress is handling.                 *)
(***************************************************************************)
C38_QueuedStatus ==
    /\ \A k \in 1..Len(interrupts_queue) :
           interrupts_queue[k] \in Stored =>
               interrupts_data[interrupts_queue[k]].status = "queued"
    /\ \A i \in Stored :
           interrupts_data[i].status = "processing" =>
               /\ tick.pc # "idle"
               /\ tick.interrupt.interrupt_id = i

\* A requeued interrupt waits in the queue with the status processing while
\* no tick is in progress.
C38_RequeuedProcessing ==
    /\ tick.pc = "idle"
    /\ \E i \in Stored :
           /\ InQueue(i)
           /\ interrupts_data[i].retry_at
           /\ interrupts_data[i].status = "processing"


(***************************************************************************)
(* C39: at every tick boundary line_index plus the number of entries in    *)
(* the script queue equals the number of lines the most recent replace     *)
(* loaded: line_index is the position in the current plan of the next line *)
(* to be spoken.                                                           *)
(***************************************************************************)
\* The lines the most recent _replace_script loaded.
LoadedLines == ScriptLines(plan.script)

C39_IndexPlusQueue ==
    tick.pc = "idle" =>
        /\ line_index + Len(script_queue) = Len(LoadedLines)
        /\ script_queue # <<>> =>
               Head(script_queue).line = LoadedLines[line_index + 1]

\* Between two ticks the first line of the plan has been popped by a tick that
\* raised: line_index is still 0 and the queue holds one line fewer than the
\* plan.
C39_IndexBehind ==
    /\ tick.pc = "idle"
    /\ ret = "raised"
    /\ line_index = 0
    /\ Len(yielded) = 1
    /\ Len(script_queue) = Len(LoadedLines) - 1
    /\ script_queue # <<>>


(***************************************************************************)
(* C40: the audio of every script-line chunk was synthesized, or cached,   *)
(* for the chunk's own transcript.  Audio that came from the TTS request   *)
(* was requested for the transcript of its chunk, and a cached best file   *)
(* is returned only for the line it was recorded for: no two chunks with   *)
(* different transcripts carry the same best file, also when the script    *)
(* was replaced between them and line_index restarted from 0.              *)
(***************************************************************************)
C40_OwnTranscript ==
    \A a, b \in 1..Len(audio_queue) :
        LET x == audio_queue[a]
            y == audio_queue[b]
        IN  /\ x.audio_base64.src = "tts" => x.audio_base64.text = x.transcript
            /\ (x.audio_base64.src = "best" /\ y.audio_base64 = x.audio_base64) =>
                   y.transcript = x.transcript

\* The second line of the default script and the second line of the script
\* an LLM rewrite loaded are both in the audio queue with the same best file.
C40_StaleBest ==
    \E a, b \in 1..Len(audio_queue) :
        /\ a < b
        /\ audio_queue[a].audio_base64.src = "best"
        /\ audio_queue[b].audio_base64 = audio_queue[a].audio_base64
        /\ audio_queue[a].transcript = <<"b">>
        /\ audio_queue[b].transcript = <<"d">>
        /\ audio_queue[b].speaker = <<"p">>
        /\ Truthy(answer)
        /\ plan.script = answer

=============================================================================
